---- MODULE Spec2Model ----
(***************************************************************************)
(* Ring Buffer library (cyberguijarro/ring_buffer).                        *)
(*                                                                         *)
(* A fixed-capacity circular byte buffer.  Two variants are modelled:      *)
(*   - the C99 rewind-capable store (src/C99/ring_buffer.c, l. 279-533):   *)
(*     ring_buffer_create / _write / _read / _rewind / _available and the  *)
(*     two callback setters;                                               *)
(*   - the C++11 ring_buffer (src/C++11/ring_buffer.cpp): write / read /   *)
(*     get_available and the two callback setters.                         *)
(* Cursors are size_t counters; the model keeps their width (Word) and     *)
(* computes every cursor expression modulo Word, as the code does.         *)
(* Each call is one step: the calls of this model come from one thread.    *)
(***************************************************************************)
EXTENDS Integers, Sequences, FiniteSets, TLC

(* ------------------------------ bounds --------------------------------- *)
\* Largest capacity a store is created with.
MaxCapacity == 3
\* Largest number of bytes ever written (writes that would pass it are not made).
MaxPos == 6
\* Thresholds passed to the callback setters are 0..MaxThreshold.
MaxThreshold == 3
\* Width in bits of the size_t cursors (scaled down).
WordBits == 5
\* Largest number of times a thread holds the recursive lock at once.
MaxHeld == 2

Word == 2 ^ WordBits
\* Largest unsigned char (the tests' bytes are unsigned char).
UCHAR_MAX == 255
Byte == 0 .. UCHAR_MAX

(* --------------------------- size_t arithmetic -------------------------- *)
\* a + b and a - b on size_t: unsigned, modulo Word.
Add(a, b) == (a + b) % Word
\* Faulty variant of the subtraction: it stops at 0 instead of wrapping.
SubSaturating(a, b) == IF a >= b THEN a - b ELSE 0
Sub(a, b) == (a - b + Word) % Word

\* #define min(a, b) (((a) < (b)) ? (a) : (b))
min(a, b) == IF a < b THEN a ELSE b

\* Writes that would take the number of bytes ever written past the horizon
\* of the store r are not made: MaxPos for the stores of up to MaxCapacity
\* bytes, and as much further as the store is larger for the stores of the
\* concrete scenarios.
Horizon(r) == MaxPos + r.capacity - min(r.capacity, MaxCapacity)

(* ------------------------------ values ---------------------------------- *)
NULL == "NULL"
\* A threshold that was never assigned (create sets only the callback pointer):
\* a mark no size_t value equals.
Indeterminate == Word
\* An array cell malloc returned and nobody wrote yet: a mark no byte equals.
Uninitialized == UCHAR_MAX + 1

\* ring_buffer_status (src/C99/ring_buffer.h); the C++ variants throw the
\* exception of the same name instead of returning the status.
RING_BUFFER_SUCCESS == "SUCCESS"
RING_BUFFER_INVALID_ADDRESS == "INVALID_ADDRESS"
RING_BUFFER_OVERFLOW == "OVERFLOW"
RING_BUFFER_UNDERFLOW == "UNDERFLOW"

\* The caller's block of memory (temp_buffer in the tests).
temp_buffer == "temp_buffer"
\* A data argument: where it points, and the bytes found there.
Pointer(bytes) == [address |-> temp_buffer, bytes |-> bytes]
NullPointer == [address |-> NULL, bytes |-> <<>>]

\* The callback the test drivers register (test.c: callback; test.cpp: the
\* lambda); it asks the store for the available counts and changes nothing.
callback == "callback"

(* ------------------------------- state ---------------------------------- *)
VARIABLES
    variant,    \* which library is linked: "C99" (rewind-capable) or "C++11"
    ring,       \* struct _ring_buffer / ring_buffer_implementation
    last,       \* the last call made: operation, arguments, status, bytes returned
    written,    \* test fixture: every byte accepted by a successful write, in order
    consumed,   \* test fixture: the bytes read and not un-read by a rewind, in order
    pc,         \* where the traced caller stands inside a call it makes step by step
    mutex,      \* ring->lock / implementation->mutex: its owner and lock count
    frame,      \* the traced caller's locals while it is inside a call
    other       \* the store made by the copy constructor, and what it shares

\* The traced caller's view of its own call in progress.
thread == <<pc, mutex, frame>>

vars == <<variant, ring, last, written, consumed, pc, mutex, frame, other>>

\* produce (test.c): the next length bytes of the test's byte stream, which
\* numbers the bytes it writes; write_counter is the number of bytes accepted
\* so far (revert takes a refused block back).
produce(write_counter, length) ==
    [i \in 1 .. length |-> (write_counter + i - 1) % (UCHAR_MAX + 1)]

\* What the caller receives when the copied cells hold the bytes raw: a cell
\* never written holds an arbitrary byte.
RECURSIVE Received(_)
Received(raw) ==
    IF raw = <<>> THEN {<<>>}
    ELSE {<<b>> \o rest :
            b \in (IF Head(raw) = Uninitialized THEN Byte ELSE {Head(raw)}),
            rest \in Received(Tail(raw))}

\* The outcomes of count >= threshold, for a threshold that may never have
\* been assigned.
Reaches(count, threshold) ==
    IF threshold = Indeterminate THEN BOOLEAN ELSE {count >= threshold}

\* The record of a call.  address is where the data argument of a transfer
\* pointed (the caller's block of memory unless the call says otherwise).
\* replay holds the bytes a read returned while the caller replays them: it is set by a rewind(n) that directly follows a
\* successful read(n), n >= 1, and kept by a read(n) into valid memory that
\* directly follows that rewind when it succeeded; it is empty otherwise.
Call(op, status, length, data, notified) ==
    [op |-> op, status |-> status, length |-> length, data |-> data,
     notified |-> notified, address |-> temp_buffer,
     replay |->
        IF /\ op = "rewind" /\ last.op = "read" /\ length = last.length
           /\ last.status = RING_BUFFER_SUCCESS
        THEN last.data
        ELSE IF /\ op = "read" /\ last.op = "rewind" /\ length = last.length
                /\ last.status = RING_BUFFER_SUCCESS
                /\ status # RING_BUFFER_INVALID_ADDRESS
        THEN last.replay
        ELSE <<>>]

NoCall == [op |-> "create", status |-> RING_BUFFER_SUCCESS, length |-> 0,
           data |-> <<>>, notified |-> 0, address |-> temp_buffer,
           replay |-> <<>>]

\* The record of a call that was given the data argument pointer.
CallOn(pointer, op, status, length, data, notified) ==
    [Call(op, status, length, data, notified) EXCEPT !.address = pointer.address]

(* ------------------------------ the lock -------------------------------- *)
\* The thread whose calls are traced step by step; the calls of the other
\* threads are whole critical sections, taken while the lock is free.
caller == "caller"
nobody == "nobody"

\* pthread_mutex_init(&_ring->lock, NULL) / std::recursive_mutex: not locked.
Unlocked == [owner |-> nobody, count |-> 0]

\* Faulty variant of the lock: a plain mutex in both variants.
CanLockOnce(m) == m.owner = nobody

\* The caller can take the lock: it is free, or (C++11: recursive_mutex; C++98
\* header: PTHREAD_MUTEX_RECURSIVE) the caller holds it already.  The C99 store's mutex has the default type: a
\* caller that locks it again waits for itself.
CanLock(m) == m.owner = nobody \/ (variant \in {"C++11", "C++98"} /\ m.owner = caller)
\* Faulty variant of taking the lock: the other threads are not kept out.
LockWithoutOwner(m) == [owner |-> nobody, count |-> m.count + 1]
Lock(m) == [owner |-> caller, count |-> m.count + 1]
Unlock(m) == IF m.count <= 1 THEN Unlocked ELSE [m EXCEPT !.count = m.count - 1]

\* The caller's locals: the call and its arguments, the status to return, the
\* notify flag, the registration whose threshold was tested, the callback
\* that was invoked, how many times the caller held the lock when the callback
\* started, the counts the callback obtained, and the bytes its copy loop has
\* left to copy.
Frame(op, data, length) ==
    [op |-> op, data |-> data, length |-> length,
     status |-> RING_BUFFER_SUCCESS, notify |-> FALSE,
     tested |-> [callback |-> NULL, threshold |-> Indeterminate],
     invoked |-> NULL, held |-> 0, seen |-> <<>>, left |-> 0]
NoFrame == Frame("none", <<>>, 0)

(* ------------------------- wraparound copy loops ------------------------ *)
\* Each loop returns what it leaves behind, the number of times its body ran
\* and, for each memcpy, the cursor it started from and its size.
\* do { target = write % capacity; size = min(left, capacity - target);
\*      memcpy(buffer + target, data + length - left, size);
\*      left -= size; write += size; } while (left > 0);
RECURSIVE write_loop(_, _, _, _, _, _)
write_loop(buffer, write, capacity, data, left, iterations) ==
    LET length == Len(data)
        target == write % capacity
        size   == min(left, capacity - target)
        copied == [i \in DOMAIN buffer |->
                     IF target <= i /\ i < target + size
                     THEN data[length - left + (i - target) + 1]
                     ELSE buffer[i]]
        copy   == [pos |-> write, size |-> size]
    IN  IF left - size > 0
        THEN LET rest == write_loop(copied, Add(write, size), capacity, data,
                                    left - size, iterations + 1)
             IN  [rest EXCEPT !.copies = <<copy>> \o @]
        ELSE [buffer |-> copied, write |-> Add(write, size),
              iterations |-> iterations + 1, copies |-> <<copy>>]

\* Faulty variant of the read loop: each segment is put in front of the bytes
\* already copied instead of after them (data - length + left for
\* data + length - left).
RECURSIVE read_loop_prepending(_, _, _, _, _, _)
read_loop_prepending(buffer, read, capacity, data, left, iterations) ==
    LET target == read % capacity
        size   == min(left, capacity - target)
        copied == [i \in 1 .. size |-> buffer[target + i - 1]] \o data
        copy   == [pos |-> read, size |-> size]
    IN  IF left - size > 0
        THEN LET rest == read_loop_prepending(buffer, Add(read, size), capacity,
                                              copied, left - size, iterations + 1)
             IN  [rest EXCEPT !.copies = <<copy>> \o @]
        ELSE [data |-> copied, read |-> Add(read, size),
              iterations |-> iterations + 1, copies |-> <<copy>>]

\* do { target = read % capacity; size = min(left, capacity - target);
\*      memcpy(data + length - left, buffer + target, size);
\*      left -= size; read += size; } while (left > 0);
RECURSIVE read_loop(_, _, _, _, _, _)
read_loop(buffer, read, capacity, data, left, iterations) ==
    LET target == read % capacity
        size   == min(left, capacity - target)
        copied == data \o [i \in 1 .. size |-> buffer[target + i - 1]]
        copy   == [pos |-> read, size |-> size]
    IN  IF left - size > 0
        THEN LET rest == read_loop(buffer, Add(read, size), capacity, copied,
                                   left - size, iterations + 1)
             IN  [rest EXCEPT !.copies = <<copy>> \o @]
        ELSE [data |-> copied, read |-> Add(read, size),
              iterations |-> iterations + 1, copies |-> <<copy>>]

\* One pass through the body of the write loop on the store r, with left
\* bytes of data still to copy: the store and the count it leaves.
write_memcpy(r, data, left) ==
    LET length == Len(data)
        target == r.write % r.capacity
        size   == min(left, r.capacity - target)
    IN  [ring |-> [r EXCEPT
                     !.buffer = [i \in DOMAIN r.buffer |->
                                   IF target <= i /\ i < target + size
                                   THEN data[length - left + (i - target) + 1]
                                   ELSE r.buffer[i]],
                     !.write = Add(r.write, size)],
         left |-> left - size]

\* One pass through the body of the read loop on the store r, after the bytes
\* data, with left bytes still to copy.
read_memcpy(r, data, left) ==
    LET target == r.read % r.capacity
        size   == min(left, r.capacity - target)
    IN  [ring |-> [r EXCEPT !.read = Add(r.read, size)],
         data |-> data \o [i \in 1 .. size |-> r.buffer[target + i - 1]],
         left |-> left - size]

\* The test fixture after a rewind: the last length bytes are no longer consumed.
Unread(bytes, length) ==
    IF length <= Len(bytes) THEN SubSeq(bytes, 1, Len(bytes) - length) ELSE <<>>

(* ------------------- C99 rewind-capable Ring Store ---------------------- *)
\* ring_buffer_create: the store after a successful create.
ring_buffer_create(capacity, backlog) ==
    [buffer   |-> [i \in 0 .. capacity - 1 |-> Uninitialized],
     capacity |-> capacity,
     backlog  |-> backlog,
     read     |-> 0,
     write    |-> 0,
     rewind   |-> 0,
     read_callback  |-> [callback |-> NULL, threshold |-> Indeterminate],
     write_callback |-> [callback |-> NULL, threshold |-> Indeterminate]]

\* ring_buffer_available: (*read, *write, *rewind).
ring_buffer_available(r) ==
    LET readable == Sub(r.write, r.read)
    IN  [read   |-> readable,
         write  |-> Sub(Add(Sub(r.capacity, r.backlog), r.rewind), readable),
         rewind |-> min(r.read, Sub(r.backlog, r.rewind))]

\* Faulty variants of the test of line 395: one forgets the backlog and the
\* rewind credit, the other refuses a write that exactly fills the space.
write_fits_without_backlog(r, length) ==
    Sub(r.capacity, Sub(r.write, r.read)) >= length
write_fits_strict(r, length) ==
    Sub(Add(Sub(r.capacity, r.backlog), r.rewind), Sub(r.write, r.read)) > length

\* The test of line 395: the write fits in the writable space.
write_fits(r, length) ==
    Sub(Add(Sub(r.capacity, r.backlog), r.rewind), Sub(r.write, r.read)) >= length

\* Faulty variant of the test of line 434: refuses to read everything readable.
read_fits_strict(r, length) == Sub(r.write, r.read) > length

\* Faulty variant of the test of line 434: one byte more than is readable
\* may be read.
read_fits_one_short(r, length) == Add(Sub(r.write, r.read), 1) >= length

\* The test of line 434: the store holds length readable bytes.
read_fits(r, length) == Sub(r.write, r.read) >= length

\* Faulty variants of the test of line 476: one refuses a rewind of the whole
\* backlog, the other counts the credit already banked against the backlog.
rewind_fits_strict(r, length) == (length < r.backlog) /\ (length <= r.read)
rewind_fits_with_credit(r, length) ==
    (length <= Sub(r.backlog, r.rewind)) /\ (length <= r.read)

\* Faulty variant of the test of line 476: the read cursor is not looked at.
rewind_fits_backlog_only(r, length) == length <= r.backlog

\* The test of line 476: the rewind is allowed.
rewind_fits(r, length) == (length <= r.backlog) /\ (length <= r.read)

\* Faulty variant of lines 445-448: the length is subtracted without the test.
rewind_after_read_wrapping(rewind, length) == Sub(rewind, length)

\* Lines 445-448: the rewind credit left after reading length bytes.
rewind_after_read(rewind, length) ==
    IF rewind < length THEN 0 ELSE Sub(rewind, length)

\* Faulty variant of line 406: the readable count must exceed the threshold.
read_notify_strict(r) ==
    IF r.read_callback.threshold = Indeterminate THEN BOOLEAN
    ELSE {Sub(r.write, r.read) > r.read_callback.threshold}

\* Faulty variant of line 406: the threshold is not looked at.
read_notify_always(r) == {TRUE}

\* Line 406: the outcomes of (write - read) >= read_callback.threshold.
read_notify(r) == Reaches(Sub(r.write, r.read), r.read_callback.threshold)

\* Faulty variant of line 450: the rewind credit is left out of the writable
\* count.
write_notify_without_credit(r) ==
    Reaches(Sub(Sub(r.capacity, r.backlog), Sub(r.write, r.read)),
            r.write_callback.threshold)

\* Faulty variant of line 450: the writable count must exceed the threshold.
write_notify_strict(r) ==
    IF r.write_callback.threshold = Indeterminate THEN BOOLEAN
    ELSE {Sub(Add(Sub(r.capacity, r.backlog), r.rewind), Sub(r.write, r.read))
            > r.write_callback.threshold}

\* Line 450: the outcomes of the writable count >= write_callback.threshold.
write_notify(r) ==
    Reaches(Sub(Add(Sub(r.capacity, r.backlog), r.rewind), Sub(r.write, r.read)),
            r.write_callback.threshold)

\* Faulty variant of ring_buffer_set_read_callback: an absent callback leaves
\* the registered one in place and only the threshold is replaced.
set_read_callback_keeping(cb, threshold) ==
    /\ variant = "C99"
    /\ ring' = [ring EXCEPT !.read_callback =
                  [callback  |-> IF cb = NULL THEN ring.read_callback.callback
                                 ELSE cb,
                   threshold |-> threshold]]
    /\ last' = Call("set_read_callback", RING_BUFFER_SUCCESS, threshold, <<cb>>, 0)
    /\ UNCHANGED <<variant, other, written, consumed>> /\ UNCHANGED thread

\* The setters: the call record keeps the threshold (length) and the callback
\* (data) that were passed.
ring_buffer_set_read_callback(cb, threshold) ==
    /\ variant = "C99"
    /\ ring' = [ring EXCEPT !.read_callback = [callback |-> cb, threshold |-> threshold]]
    /\ last' = Call("set_read_callback", RING_BUFFER_SUCCESS, threshold, <<cb>>, 0)
    /\ UNCHANGED <<variant, other, written, consumed>> /\ UNCHANGED thread

\* Faulty variant of ring_buffer_set_write_callback: the threshold is stored in
\* both registrations.
set_write_callback_both(cb, threshold) ==
    /\ variant = "C99"
    /\ ring' = [ring EXCEPT !.write_callback = [callback |-> cb, threshold |-> threshold],
                            !.read_callback.threshold = threshold]
    /\ last' = Call("set_write_callback", RING_BUFFER_SUCCESS, threshold, <<cb>>, 0)
    /\ UNCHANGED <<variant, other, written, consumed>> /\ UNCHANGED thread

ring_buffer_set_write_callback(cb, threshold) ==
    /\ variant = "C99"
    /\ ring' = [ring EXCEPT !.write_callback = [callback |-> cb, threshold |-> threshold]]
    /\ last' = Call("set_write_callback", RING_BUFFER_SUCCESS, threshold, <<cb>>, 0)
    /\ UNCHANGED <<variant, other, written, consumed>> /\ UNCHANGED thread

\* Faulty variant of ring_buffer_write: the threshold is tested after the
\* if/else of l.395-410, so a refused write notifies too.
write_notifying_refused(data, length) ==
    /\ variant = "C99"
    /\ Len(written) + length <= Horizon(ring)
    /\ IF data.address = NULL
       THEN /\ last' = CallOn(data, "write", RING_BUFFER_INVALID_ADDRESS, length, <<>>, 0)
            /\ UNCHANGED <<ring, written>>
       ELSE IF write_fits(ring, length)
       THEN LET done  == write_loop(ring.buffer, ring.write, ring.capacity,
                                    data.bytes, length, 0)
                after == [ring EXCEPT !.buffer = done.buffer, !.write = done.write]
            IN  \E notify \in read_notify(after) :
                  /\ ring' = after
                  /\ written' = written \o data.bytes
                  /\ last' = CallOn(data, "write", RING_BUFFER_SUCCESS, length, data.bytes,
                                  IF after.read_callback.callback # NULL /\ notify
                                  THEN 1 ELSE 0)
       ELSE \E notify \in read_notify(ring) :
              /\ last' = CallOn(data, "write", RING_BUFFER_OVERFLOW, length, data.bytes,
                                IF ring.read_callback.callback # NULL /\ notify
                                THEN 1 ELSE 0)
              /\ UNCHANGED <<ring, written>>
    /\ UNCHANGED <<variant, other, consumed>> /\ UNCHANGED thread

ring_buffer_write(data, length) ==
    /\ variant = "C99"
    /\ Len(written) + length <= Horizon(ring)
    /\ IF data.address = NULL
       THEN /\ last' = CallOn(data, "write", RING_BUFFER_INVALID_ADDRESS, length, <<>>, 0)
            /\ UNCHANGED <<ring, written>>
       ELSE IF write_fits(ring, length)
       THEN LET done  == write_loop(ring.buffer, ring.write, ring.capacity,
                                    data.bytes, length, 0)
                after == [ring EXCEPT !.buffer = done.buffer, !.write = done.write]
            IN  \E notify \in read_notify(after) :
                  /\ ring' = after
                  /\ written' = written \o data.bytes
                  /\ last' = CallOn(data, "write", RING_BUFFER_SUCCESS, length, data.bytes,
                                  IF after.read_callback.callback # NULL /\ notify
                                  THEN 1 ELSE 0)
       ELSE /\ last' = CallOn(data, "write", RING_BUFFER_OVERFLOW, length, data.bytes, 0)
            /\ UNCHANGED <<ring, written>>
    /\ UNCHANGED <<variant, other, consumed>> /\ UNCHANGED thread

\* Faulty variant of ring_buffer_read: the length is tested before the data
\* pointer.
read_testing_length_first(data, length) ==
    /\ variant = "C99"
    /\ IF ~read_fits(ring, length)
       THEN /\ last' = CallOn(data, "read", RING_BUFFER_UNDERFLOW, length, <<>>, 0)
            /\ UNCHANGED <<ring, consumed>>
       ELSE IF data.address = NULL
       THEN /\ last' = CallOn(data, "read", RING_BUFFER_INVALID_ADDRESS, length, <<>>, 0)
            /\ UNCHANGED <<ring, consumed>>
       ELSE LET done  == read_loop(ring.buffer, ring.read, ring.capacity, <<>>,
                                   length, 0)
                after == [ring EXCEPT !.read = done.read,
                                      !.rewind = rewind_after_read(ring.rewind, length)]
            IN  \E notify \in write_notify(after), out \in Received(done.data) :
                  /\ ring' = after
                  /\ consumed' = consumed \o out
                  /\ last' = CallOn(data, "read", RING_BUFFER_SUCCESS, length, out,
                                  IF after.write_callback.callback # NULL /\ notify
                                  THEN 1 ELSE 0)
    /\ UNCHANGED <<variant, other, written>> /\ UNCHANGED thread

ring_buffer_read(data, length) ==
    /\ variant = "C99"
    /\ IF data.address = NULL
       THEN /\ last' = CallOn(data, "read", RING_BUFFER_INVALID_ADDRESS, length, <<>>, 0)
            /\ UNCHANGED <<ring, consumed>>
       ELSE IF read_fits(ring, length)
       THEN LET done  == read_loop(ring.buffer, ring.read, ring.capacity, <<>>,
                                   length, 0)
                after == [ring EXCEPT !.read = done.read,
                                      !.rewind = rewind_after_read(ring.rewind, length)]
            IN  \E notify \in write_notify(after), out \in Received(done.data) :
                  /\ ring' = after
                  /\ consumed' = consumed \o out
                  /\ last' = CallOn(data, "read", RING_BUFFER_SUCCESS, length, out,
                                  IF after.write_callback.callback # NULL /\ notify
                                  THEN 1 ELSE 0)
       ELSE /\ last' = CallOn(data, "read", RING_BUFFER_UNDERFLOW, length, <<>>, 0)
            /\ UNCHANGED <<ring, consumed>>
    /\ UNCHANGED <<variant, other, written>> /\ UNCHANGED thread

\* Faulty variant of ring_buffer_rewind: a rewind that is refused still moves
\* the read cursor back as far as it is allowed to.
rewind_truncating(length) ==
    /\ variant = "C99"
    /\ IF rewind_fits(ring, length)
       THEN /\ ring' = [ring EXCEPT !.read = Sub(ring.read, length),
                                    !.rewind = Add(ring.rewind, length)]
            /\ consumed' = Unread(consumed, length)
            /\ last' = Call("rewind", RING_BUFFER_SUCCESS, length, <<>>, 0)
       ELSE LET part == min(length, min(ring.backlog, ring.read))
            IN  /\ ring' = [ring EXCEPT !.read = Sub(ring.read, part),
                                        !.rewind = Add(ring.rewind, part)]
                /\ consumed' = Unread(consumed, part)
                /\ last' = Call("rewind", RING_BUFFER_UNDERFLOW, length, <<>>, 0)
    /\ UNCHANGED <<variant, other, written>> /\ UNCHANGED thread

\* Faulty variant of ring_buffer_rewind: it notifies as a write does.
rewind_notifying(length) ==
    /\ variant = "C99"
    /\ IF rewind_fits(ring, length)
       THEN LET after == [ring EXCEPT !.read = Sub(ring.read, length),
                                      !.rewind = Add(ring.rewind, length)]
            IN  \E notify \in read_notify(after) :
                  /\ ring' = after
                  /\ consumed' = Unread(consumed, length)
                  /\ last' = Call("rewind", RING_BUFFER_SUCCESS, length, <<>>,
                                  IF after.read_callback.callback # NULL /\ notify
                                  THEN 1 ELSE 0)
       ELSE /\ last' = Call("rewind", RING_BUFFER_UNDERFLOW, length, <<>>, 0)
            /\ UNCHANGED <<ring, consumed>>
    /\ UNCHANGED <<variant, other, written>> /\ UNCHANGED thread

ring_buffer_rewind(length) ==
    /\ variant = "C99"
    /\ IF rewind_fits(ring, length)
       THEN /\ ring' = [ring EXCEPT !.read = Sub(ring.read, length),
                                    !.rewind = Add(ring.rewind, length)]
            /\ consumed' = Unread(consumed, length)
            /\ last' = Call("rewind", RING_BUFFER_SUCCESS, length, <<>>, 0)
       ELSE /\ last' = Call("rewind", RING_BUFFER_UNDERFLOW, length, <<>>, 0)
            /\ UNCHANGED <<ring, consumed>>
    /\ UNCHANGED <<variant, other, written>> /\ UNCHANGED thread

\* Faulty variant of the observation: asking for the counts spends the credit.
available_spending ==
    /\ variant = "C99"
    /\ LET got == ring_buffer_available(ring)
       IN  last' = Call("available", RING_BUFFER_SUCCESS, 0,
                        <<got.read, got.write, got.rewind>>, 0)
    /\ ring' = [ring EXCEPT !.rewind = 0]
    /\ UNCHANGED <<variant, other, written, consumed>> /\ UNCHANGED thread

\* The caller asks for the counts: data holds <<*read, *write, *rewind>>.
available ==
    /\ variant = "C99"
    /\ LET got == ring_buffer_available(ring)
       IN  last' = Call("available", RING_BUFFER_SUCCESS, 0,
                        <<got.read, got.write, got.rewind>>, 0)
    /\ UNCHANGED <<variant, other, ring, written, consumed>> /\ UNCHANGED thread

(* --------------------------- C++11 ring_buffer -------------------------- *)
\* ring_buffer_implementation(size_t capacity).  The class has no backlog and
\* no rewind credit: the record keeps both fields at 0.
ring_buffer_implementation(capacity) ==
    [buffer   |-> [i \in 0 .. capacity - 1 |-> Uninitialized],
     capacity |-> capacity,
     backlog  |-> 0,
     read     |-> 0,
     write    |-> 0,
     rewind   |-> 0,
     read_callback  |-> [callback |-> NULL, threshold |-> Indeterminate],
     write_callback |-> [callback |-> NULL, threshold |-> Indeterminate]]

\* Faulty variant of ring_buffer_readable: the bytes already read still count.
readable_from_start(r) == r.write

\* Faulty variant of ring_buffer_writable: the readable bytes are not deducted.
writable_without_readable(r) == r.capacity

ring_buffer_readable(r) == Sub(r.write, r.read)
ring_buffer_writable(r) == Sub(r.capacity, ring_buffer_readable(r))

\* Before the copy constructor has run there is no second store.  A second
\* store has its own members; aliased tells whether its buffer pointer holds
\* the array of the first store.
NoDuplicate ==
    [exists |-> FALSE, aliased |-> FALSE, store |-> ring_buffer_implementation(0)]

\* std::unique_ptr<char[]> buffer: what a write into the array of one store
\* leaves in the second store o.
Stored(o, buffer) ==
    IF o.aliased THEN [o EXCEPT !.store.buffer = buffer] ELSE o

set_read_callback(cb, threshold) ==
    /\ variant = "C++11"
    /\ ring' = [ring EXCEPT !.read_callback = [callback |-> cb, threshold |-> threshold]]
    /\ last' = Call("set_read_callback", RING_BUFFER_SUCCESS, threshold, <<cb>>, 0)
    /\ UNCHANGED <<variant, other, written, consumed>> /\ UNCHANGED thread

set_write_callback(cb, threshold) ==
    /\ variant = "C++11"
    /\ ring' = [ring EXCEPT !.write_callback = [callback |-> cb, threshold |-> threshold]]
    /\ last' = Call("set_write_callback", RING_BUFFER_SUCCESS, threshold, <<cb>>, 0)
    /\ UNCHANGED <<variant, other, written, consumed>> /\ UNCHANGED thread

write(data, length) ==
    /\ variant = "C++11"
    /\ Len(written) + length <= Horizon(ring)
    /\ IF data.address = NULL
       THEN /\ last' = CallOn(data, "write", RING_BUFFER_INVALID_ADDRESS, length, <<>>, 0)
            /\ UNCHANGED <<ring, written, other>>
       ELSE IF ring_buffer_writable(ring) >= length
       THEN LET done  == write_loop(ring.buffer, ring.write, ring.capacity,
                                    data.bytes, length, 0)
                after == [ring EXCEPT !.buffer = done.buffer, !.write = done.write]
            IN  /\ ring' = after
                /\ other' = Stored(other, after.buffer)
                /\ written' = written \o data.bytes
                /\ last' = CallOn(data, "write", RING_BUFFER_SUCCESS, length, data.bytes,
                                IF /\ after.read_callback.callback # NULL
                                   /\ ring_buffer_readable(after) >=
                                        after.read_callback.threshold
                                THEN 1 ELSE 0)
       ELSE /\ last' = CallOn(data, "write", RING_BUFFER_OVERFLOW, length, data.bytes, 0)
            /\ UNCHANGED <<ring, written, other>>
    /\ UNCHANGED <<variant, consumed>> /\ UNCHANGED thread

read(data, length) ==
    /\ variant = "C++11"
    /\ IF data.address = NULL
       THEN /\ last' = CallOn(data, "read", RING_BUFFER_INVALID_ADDRESS, length, <<>>, 0)
            /\ UNCHANGED <<ring, consumed>>
       ELSE IF ring_buffer_readable(ring) >= length
       THEN LET done  == read_loop(ring.buffer, ring.read, ring.capacity, <<>>,
                                   length, 0)
                after == [ring EXCEPT !.read = done.read]
            IN  \E out \in Received(done.data) :
                  /\ ring' = after
                  /\ consumed' = consumed \o out
                  /\ last' = CallOn(data, "read", RING_BUFFER_SUCCESS, length, out,
                                  IF /\ after.write_callback.callback # NULL
                                     /\ ring_buffer_writable(after) >=
                                          after.write_callback.threshold
                                  THEN 1 ELSE 0)
       ELSE /\ last' = CallOn(data, "read", RING_BUFFER_UNDERFLOW, length, <<>>, 0)
            /\ UNCHANGED <<ring, consumed>>
    /\ UNCHANGED <<variant, other, written>> /\ UNCHANGED thread

\* The caller asks for the counts: data holds <<read, write>>.
get_available ==
    /\ variant = "C++11"
    /\ last' = Call("available", RING_BUFFER_SUCCESS, 0,
                    <<ring_buffer_readable(ring), ring_buffer_writable(ring)>>, 0)
    /\ UNCHANGED <<variant, other, ring, written, consumed>> /\ UNCHANGED thread

(* ------------- C++98 header: generic_ring_buffer with macros ------------ *)
\* generic_ring_buffer(size_t capacity), l.323-338: the cursors are 0, both
\* callbacks are 0 (l.330), the thresholds are not assigned, and the lock is
\* recursive (l.329).
generic_ring_buffer(capacity) == ring_buffer_implementation(capacity)

\* write, l.361-363: the argument is tested, then ENTER_CRITICAL() takes the
\* lock.
generic_write_enter(data, length) ==
    /\ variant = "C++98" /\ pc = "idle"
    /\ Len(written) + length <= Horizon(ring)
    /\ IF data.address = NULL
       THEN /\ last' = CallOn(data, "write", RING_BUFFER_INVALID_ADDRESS, length, <<>>, 0)
            /\ UNCHANGED thread
       ELSE /\ CanLock(mutex) /\ mutex.count < MaxHeld
            /\ mutex' = Lock(mutex)
            /\ frame' = Frame("write", data.bytes, length)
            /\ pc' = "generic_write_critical"
            /\ UNCHANGED last
    /\ UNCHANGED <<variant, other, ring, written, consumed>>

\* write, l.365-382: the copy and the callback, then EXIT_CRITICAL() releases
\* the lock (l.382) and the call returns; or the exception is thrown at l.380,
\* from inside the block that ENTER_CRITICAL() opened, and the statement of
\* EXIT_CRITICAL() is not reached.
generic_write_critical ==
    /\ variant = "C++98" /\ pc = "generic_write_critical"
    /\ IF ring_buffer_writable(ring) >= frame.length
       THEN LET done  == write_loop(ring.buffer, ring.write, ring.capacity,
                                    frame.data, frame.length, 0)
                after == [ring EXCEPT !.buffer = done.buffer, !.write = done.write]
            IN  /\ ring' = after
                /\ written' = written \o frame.data
                /\ last' = Call("write", RING_BUFFER_SUCCESS, frame.length,
                                frame.data,
                                IF /\ after.read_callback.callback # NULL
                                   /\ ring_buffer_readable(after) >=
                                        after.read_callback.threshold
                                THEN 1 ELSE 0)
                /\ mutex' = Unlock(mutex)
       ELSE /\ last' = Call("write", RING_BUFFER_OVERFLOW, frame.length,
                            frame.data, 0)
            /\ UNCHANGED <<ring, written, mutex>>
    /\ frame' = NoFrame
    /\ pc' = "idle"
    /\ UNCHANGED <<variant, other, consumed>>

\* read, l.389-391.
generic_read_enter(data, length) ==
    /\ variant = "C++98" /\ pc = "idle"
    /\ IF data.address = NULL
       THEN /\ last' = CallOn(data, "read", RING_BUFFER_INVALID_ADDRESS, length, <<>>, 0)
            /\ UNCHANGED thread
       ELSE /\ CanLock(mutex) /\ mutex.count < MaxHeld
            /\ mutex' = Lock(mutex)
            /\ frame' = Frame("read", <<>>, length)
            /\ pc' = "generic_read_critical"
            /\ UNCHANGED last
    /\ UNCHANGED <<variant, other, ring, written, consumed>>

\* read, l.393-410: as in write, the exception of l.408 leaves the block
\* before pthread_mutex_unlock.
generic_read_critical ==
    /\ variant = "C++98" /\ pc = "generic_read_critical"
    /\ IF ring_buffer_readable(ring) >= frame.length
       THEN LET done  == read_loop(ring.buffer, ring.read, ring.capacity, <<>>,
                                   frame.length, 0)
                after == [ring EXCEPT !.read = done.read]
            IN  \E out \in Received(done.data) :
                  /\ ring' = after
                  /\ consumed' = consumed \o out
                  /\ last' = Call("read", RING_BUFFER_SUCCESS, frame.length, out,
                                  IF /\ after.write_callback.callback # NULL
                                     /\ ring_buffer_writable(after) >=
                                          after.write_callback.threshold
                                  THEN 1 ELSE 0)
                  /\ mutex' = Unlock(mutex)
       ELSE /\ last' = Call("read", RING_BUFFER_UNDERFLOW, frame.length, <<>>, 0)
            /\ UNCHANGED <<ring, consumed, mutex>>
    /\ frame' = NoFrame
    /\ pc' = "idle"
    /\ UNCHANGED <<variant, other, written>>

\* get_available, l.417-424, called by another thread: ENTER_CRITICAL() waits
\* until the lock is free; the counts are not kept.
generic_get_available ==
    /\ variant = "C++98"
    /\ mutex.owner = nobody
    /\ last' = Call("available", RING_BUFFER_SUCCESS, 0,
                    <<ring_buffer_readable(ring), ring_buffer_writable(ring)>>, 0)
    /\ UNCHANGED <<variant, other, ring, written, consumed>> /\ UNCHANGED thread

(* ------------------------- the copy constructor ------------------------- *)
\* ring_buffer other(buffer), l.143, l.53-62, by the traced caller.  The
\* members are initialised in the order of their declaration (l.34-35), from
\* the members of the source, before the body takes the lock of the source.
\* l.53: capacity(other->capacity), _read(other->_read).  The caller makes one
\* such store.
copy_read ==
    /\ variant = "C++11" /\ pc = "idle"
    /\ ~other.exists
    /\ other' = [exists |-> FALSE, aliased |-> FALSE,
                 store |-> [ring_buffer_implementation(ring.capacity)
                               EXCEPT !.read = ring.read]]
    /\ pc' = "copy_write"
    /\ UNCHANGED <<variant, ring, last, written, consumed, mutex, frame>>

\* l.53: _write(other->_write), read_callback(...), write_callback(...).
copy_write ==
    /\ variant = "C++11" /\ pc = "copy_write"
    /\ other' = [other EXCEPT !.store.write = ring.write,
                              !.store.read_callback = ring.read_callback,
                              !.store.write_callback = ring.write_callback]
    /\ pc' = "copy_lock"
    /\ UNCHANGED <<variant, ring, last, written, consumed, mutex, frame>>

\* l.54: std::lock_guard<std::recursive_mutex> lock{other->mutex}.
copy_lock ==
    /\ variant = "C++11" /\ pc = "copy_lock"
    /\ CanLock(mutex)
    /\ mutex' = Lock(mutex)
    /\ pc' = "copy_buffer"
    /\ UNCHANGED <<variant, ring, last, written, consumed, frame, other>>

\* Faulty variant of copy_buffer: the second store takes the pointer to the
\* array of the source instead of a copy of the array.
copy_buffer_sharing ==
    /\ variant = "C++11" /\ pc = "copy_buffer"
    /\ other' = [other EXCEPT !.exists = TRUE, !.aliased = TRUE,
                              !.store.buffer = ring.buffer]
    /\ mutex' = Unlock(mutex)
    /\ last' = Call("copy", RING_BUFFER_SUCCESS, 0, <<>>, 0)
    /\ pc' = "idle"
    /\ UNCHANGED <<variant, ring, written, consumed, frame>>

\* l.57-58: buffer.reset(new char[capacity]); memcpy(buffer.get(),
\* other->buffer.get(), capacity); l.62: the lock is released and the
\* constructor returns.
copy_buffer ==
    /\ variant = "C++11" /\ pc = "copy_buffer"
    /\ other' = [other EXCEPT !.exists = TRUE, !.aliased = FALSE,
                              !.store.buffer = ring.buffer]
    /\ mutex' = Unlock(mutex)
    /\ last' = Call("copy", RING_BUFFER_SUCCESS, 0, <<>>, 0)
    /\ pc' = "idle"
    /\ UNCHANGED <<variant, ring, written, consumed, frame>>

\* The caller turns to the other of its two stores (test.cpp l.61-76: the
\* calls on other): from here on its calls are made on that one.
use_other ==
    /\ variant = "C++11" /\ pc = "idle"
    /\ other.exists
    /\ ring' = other.store
    /\ other' = [other EXCEPT !.store = ring]
    /\ last' = Call("other", RING_BUFFER_SUCCESS, 0, <<>>, 0)
    /\ UNCHANGED <<variant, written, consumed>> /\ UNCHANGED thread

(* ------------------ the calls of one thread, step by step --------------- *)
\* The traced caller leaves a call: the status it gets, the bytes, and whether
\* a callback ran.
Return ==
    /\ last' = Call(frame.op, frame.status, frame.length, frame.data,
                    IF frame.invoked # NULL THEN 1 ELSE 0)
    /\ frame' = NoFrame
    /\ pc' = "idle"

\* ring_buffer_write, l.391-392: the arguments are tested and the lock taken.
ring_buffer_write_enter(data, length) ==
    /\ variant = "C99" /\ pc = "idle"
    /\ Len(written) + length <= Horizon(ring)
    /\ IF data.address = NULL
       THEN /\ last' = CallOn(data, "write", RING_BUFFER_INVALID_ADDRESS, length, <<>>, 0)
            /\ UNCHANGED thread
       ELSE /\ CanLock(mutex)
            /\ mutex' = Lock(mutex)
            /\ frame' = Frame("write", data.bytes, length)
            /\ pc' = "ring_buffer_write_critical"
            /\ UNCHANGED last
    /\ UNCHANGED <<variant, other, ring, written, consumed>>

\* ring_buffer_write, l.393-410: the critical section.
ring_buffer_write_critical ==
    /\ variant = "C99" /\ pc = "ring_buffer_write_critical"
    /\ IF write_fits(ring, frame.length)
       THEN LET done  == write_loop(ring.buffer, ring.write, ring.capacity,
                                    frame.data, frame.length, 0)
                after == [ring EXCEPT !.buffer = done.buffer, !.write = done.write]
            IN  \E notify \in read_notify(after) :
                  /\ ring' = after
                  /\ written' = written \o frame.data
                  /\ frame' = [frame EXCEPT !.notify = notify,
                                            !.tested = after.read_callback]
       ELSE /\ frame' = [frame EXCEPT !.status = RING_BUFFER_OVERFLOW]
            /\ UNCHANGED <<ring, written>>
    /\ pc' = "ring_buffer_write_unlock"
    /\ UNCHANGED <<variant, other, last, consumed, mutex>>

\* ring_buffer_write, l.412: pthread_mutex_unlock.
ring_buffer_write_unlock ==
    /\ variant = "C99" /\ pc = "ring_buffer_write_unlock"
    /\ mutex' = Unlock(mutex)
    /\ pc' = "ring_buffer_write_notify"
    /\ UNCHANGED <<variant, other, ring, last, written, consumed, frame>>

\* ring_buffer_write, l.414-415: the callback pointer is read, and called when
\* it is set and notify is.
ring_buffer_write_notify ==
    /\ variant = "C99" /\ pc = "ring_buffer_write_notify"
    /\ IF ring.read_callback.callback # NULL /\ frame.notify
       THEN /\ frame' = [frame EXCEPT !.invoked = ring.read_callback.callback,
                                      !.held = IF mutex.owner = caller
                                               THEN mutex.count ELSE 0]
            /\ pc' = "callback"
       ELSE /\ pc' = "ring_buffer_write_return"
            /\ UNCHANGED frame
    /\ UNCHANGED <<variant, other, ring, last, written, consumed, mutex>>

\* ring_buffer_write, l.423: return result.
ring_buffer_write_return ==
    /\ variant = "C99" /\ pc = "ring_buffer_write_return"
    /\ Return
    /\ UNCHANGED <<variant, other, ring, written, consumed, mutex>>

\* The callback of the test drivers starts: it calls ring_buffer_available /
\* get_available, which takes the lock.
callback_enter ==
    /\ pc = "callback"
    /\ CanLock(mutex)
    /\ mutex' = Lock(mutex)
    /\ pc' = "callback_available"
    /\ UNCHANGED <<variant, other, ring, last, written, consumed, frame>>

\* ... reads the counts into callback_read and callback_write, releases the
\* lock and returns to the call that invoked it.
callback_available ==
    /\ pc = "callback_available"
    /\ frame' = [frame EXCEPT !.seen =
                    IF variant = "C99"
                    THEN LET got == ring_buffer_available(ring)
                         IN  <<got.read, got.write, got.rewind>>
                    ELSE <<ring_buffer_readable(ring), ring_buffer_writable(ring)>>]
    /\ mutex' = Unlock(mutex)
    /\ pc' = IF variant = "C99" THEN "ring_buffer_write_return" ELSE "exit"
    /\ UNCHANGED <<variant, other, ring, last, written, consumed>>

\* C++11 write, l.82-83: the argument is tested and the lock_guard built.
write_enter(data, length) ==
    /\ variant = "C++11" /\ pc = "idle"
    /\ Len(written) + length <= Horizon(ring)
    /\ IF data.address = NULL
       THEN /\ last' = CallOn(data, "write", RING_BUFFER_INVALID_ADDRESS, length, <<>>, 0)
            /\ UNCHANGED thread
       ELSE /\ CanLock(mutex)
            /\ mutex' = Lock(mutex)
            /\ frame' = Frame("write", data.bytes, length)
            /\ pc' = "write_critical"
            /\ UNCHANGED last
    /\ UNCHANGED <<variant, other, ring, written, consumed>>

\* C++11 write, l.85-100: the copy, then the callback is called (l.96-97) or
\* the exception thrown, inside the scope of the lock_guard.
write_critical ==
    /\ variant = "C++11" /\ pc = "write_critical"
    /\ IF ring_buffer_writable(ring) >= frame.length
       THEN LET done  == write_loop(ring.buffer, ring.write, ring.capacity,
                                    frame.data, frame.length, 0)
                after == [ring EXCEPT !.buffer = done.buffer, !.write = done.write]
            IN  /\ ring' = after
                /\ other' = Stored(other, after.buffer)
                /\ written' = written \o frame.data
                /\ IF /\ after.read_callback.callback # NULL
                      /\ ring_buffer_readable(after) >= after.read_callback.threshold
                   THEN /\ frame' = [frame EXCEPT
                                       !.notify = TRUE,
                                       !.tested = after.read_callback,
                                       !.invoked = after.read_callback.callback,
                                       !.held = IF mutex.owner = caller
                                                THEN mutex.count ELSE 0]
                        /\ pc' = "callback"
                   ELSE /\ pc' = "exit"
                        /\ UNCHANGED frame
       ELSE /\ frame' = [frame EXCEPT !.status = RING_BUFFER_OVERFLOW]
            /\ pc' = "exit"
            /\ UNCHANGED <<ring, written, other>>
    /\ UNCHANGED <<variant, last, consumed, mutex>>

\* C++11 read, l.108-109.
read_enter(data, length) ==
    /\ variant = "C++11" /\ pc = "idle"
    /\ IF data.address = NULL
       THEN /\ last' = CallOn(data, "read", RING_BUFFER_INVALID_ADDRESS, length, <<>>, 0)
            /\ UNCHANGED thread
       ELSE /\ CanLock(mutex)
            /\ mutex' = Lock(mutex)
            /\ frame' = Frame("read", <<>>, length)
            /\ pc' = "read_critical"
            /\ UNCHANGED last
    /\ UNCHANGED <<variant, other, ring, written, consumed>>

\* C++11 read, l.111-126.
read_critical ==
    /\ variant = "C++11" /\ pc = "read_critical"
    /\ IF ring_buffer_readable(ring) >= frame.length
       THEN LET done  == read_loop(ring.buffer, ring.read, ring.capacity, <<>>,
                                   frame.length, 0)
                after == [ring EXCEPT !.read = done.read]
            IN  \E out \in Received(done.data) :
                  /\ ring' = after
                  /\ consumed' = consumed \o out
                  /\ IF /\ after.write_callback.callback # NULL
                        /\ ring_buffer_writable(after) >=
                             after.write_callback.threshold
                     THEN /\ frame' = [frame EXCEPT
                                         !.data = out,
                                         !.notify = TRUE,
                                         !.tested = after.write_callback,
                                         !.invoked = after.write_callback.callback,
                                         !.held = IF mutex.owner = caller
                                                  THEN mutex.count ELSE 0]
                          /\ pc' = "callback"
                     ELSE /\ frame' = [frame EXCEPT !.data = out]
                          /\ pc' = "exit"
       ELSE /\ frame' = [frame EXCEPT !.status = RING_BUFFER_UNDERFLOW]
            /\ pc' = "exit"
            /\ UNCHANGED <<ring, consumed>>
    /\ UNCHANGED <<variant, other, last, written, mutex>>

\* C++11 write / read, l.101 / l.127: the lock_guard goes out of scope (also
\* when the exception unwinds) and the call returns or throws.
exit ==
    /\ variant = "C++11" /\ pc = "exit"
    /\ mutex' = Unlock(mutex)
    /\ Return
    /\ UNCHANGED <<variant, other, ring, written, consumed>>

(* ------------- the critical sections, one memcpy at a time -------------- *)
\* The lock is free for a thread other than the traced caller:
\* pthread_mutex_lock / the lock_guard constructor returns to it.
\* Faulty variant: the other threads do not wait.
FreeAlways(m) == TRUE
Free(m) == m.owner = nobody

\* ring_buffer_write, l.393-396: inside the lock, the length is tested.
ring_buffer_write_test ==
    /\ variant = "C99" /\ pc = "ring_buffer_write_critical"
    /\ IF write_fits(ring, frame.length)
       THEN /\ frame' = [frame EXCEPT !.left = frame.length]
            /\ pc' = "ring_buffer_write_memcpy"
       ELSE /\ frame' = [frame EXCEPT !.status = RING_BUFFER_OVERFLOW]
            /\ pc' = "ring_buffer_write_unlock"
    /\ UNCHANGED <<variant, other, ring, last, written, consumed, mutex>>

\* ring_buffer_write, l.398-404: one pass through the loop; after the last
\* one, l.406: the threshold is tested.
ring_buffer_write_memcpy ==
    /\ variant = "C99" /\ pc = "ring_buffer_write_memcpy"
    /\ LET done == write_memcpy(ring, frame.data, frame.left)
       IN  /\ ring' = done.ring
           /\ IF done.left > 0
              THEN /\ frame' = [frame EXCEPT !.left = done.left]
                   /\ pc' = "ring_buffer_write_memcpy"
                   /\ UNCHANGED written
              ELSE \E notify \in read_notify(done.ring) :
                     /\ frame' = [frame EXCEPT !.left = 0, !.notify = notify,
                                               !.tested = done.ring.read_callback]
                     /\ written' = written \o frame.data
                     /\ pc' = "ring_buffer_write_unlock"
    /\ UNCHANGED <<variant, other, last, consumed, mutex>>

\* C++11 write, l.85-86, l.99-100: inside the scope of the lock_guard, the
\* length is tested.
write_test ==
    /\ variant = "C++11" /\ pc = "write_critical"
    /\ IF ring_buffer_writable(ring) >= frame.length
       THEN /\ frame' = [frame EXCEPT !.left = frame.length]
            /\ pc' = "write_memcpy"
       ELSE /\ frame' = [frame EXCEPT !.status = RING_BUFFER_OVERFLOW]
            /\ pc' = "exit"
    /\ UNCHANGED <<variant, other, ring, last, written, consumed, mutex>>

\* C++11 write, l.88-94: one pass through the loop; after the last one,
\* l.96-97: the callback is called when it is set and the threshold reached.
write_memcpy_pass ==
    /\ variant = "C++11" /\ pc = "write_memcpy"
    /\ LET done == write_memcpy(ring, frame.data, frame.left)
       IN  /\ ring' = done.ring
           /\ other' = Stored(other, done.ring.buffer)
           /\ IF done.left > 0
              THEN /\ frame' = [frame EXCEPT !.left = done.left]
                   /\ pc' = "write_memcpy"
                   /\ UNCHANGED written
              ELSE /\ written' = written \o frame.data
                   /\ IF /\ done.ring.read_callback.callback # NULL
                         /\ ring_buffer_readable(done.ring) >=
                              done.ring.read_callback.threshold
                      THEN /\ frame' = [frame EXCEPT
                                          !.left = 0,
                                          !.notify = TRUE,
                                          !.tested = done.ring.read_callback,
                                          !.invoked = done.ring.read_callback.callback,
                                          !.held = IF mutex.owner = caller
                                                   THEN mutex.count ELSE 0]
                           /\ pc' = "callback"
                      ELSE /\ frame' = [frame EXCEPT !.left = 0]
                           /\ pc' = "exit"
    /\ UNCHANGED <<variant, last, consumed, mutex>>

\* C++11 read, l.111-112, l.125-126: the length is tested.
read_test ==
    /\ variant = "C++11" /\ pc = "read_critical"
    /\ IF ring_buffer_readable(ring) >= frame.length
       THEN /\ frame' = [frame EXCEPT !.left = frame.length]
            /\ pc' = "read_memcpy"
       ELSE /\ frame' = [frame EXCEPT !.status = RING_BUFFER_UNDERFLOW]
            /\ pc' = "exit"
    /\ UNCHANGED <<variant, other, ring, last, written, consumed, mutex>>

\* C++11 read, l.114-120: one pass through the loop; after the last one,
\* l.122-123: the callback is called when it is set and the threshold reached.
read_memcpy_pass ==
    /\ variant = "C++11" /\ pc = "read_memcpy"
    /\ LET done == read_memcpy(ring, frame.data, frame.left)
       IN  /\ ring' = done.ring
           /\ IF done.left > 0
              THEN /\ frame' = [frame EXCEPT !.left = done.left, !.data = done.data]
                   /\ pc' = "read_memcpy"
                   /\ UNCHANGED consumed
              ELSE \E out \in Received(done.data) :
                     /\ consumed' = consumed \o out
                     /\ IF /\ done.ring.write_callback.callback # NULL
                           /\ ring_buffer_writable(done.ring) >=
                                done.ring.write_callback.threshold
                        THEN /\ frame' = [frame EXCEPT
                                            !.left = 0,
                                            !.data = out,
                                            !.notify = TRUE,
                                            !.tested = done.ring.write_callback,
                                            !.invoked = done.ring.write_callback.callback,
                                            !.held = IF mutex.owner = caller
                                                     THEN mutex.count ELSE 0]
                             /\ pc' = "callback"
                        ELSE /\ frame' = [frame EXCEPT !.left = 0, !.data = out]
                             /\ pc' = "exit"
    /\ UNCHANGED <<variant, other, last, written, mutex>>

(* ----------- ring_buffer_write, l.414-415, one load at a time ----------- *)
\* l.414: outside the lock, the callback pointer is loaded and tested with
\* the notify flag.
ring_buffer_write_notify_test ==
    /\ variant = "C99" /\ pc = "ring_buffer_write_notify"
    /\ IF ring.read_callback.callback # NULL /\ frame.notify
       THEN /\ frame' = [frame EXCEPT !.invoked = ring.read_callback.callback]
            /\ pc' = "ring_buffer_write_call"
       ELSE /\ pc' = "ring_buffer_write_return"
            /\ UNCHANGED frame
    /\ UNCHANGED <<variant, other, ring, last, written, consumed, mutex>>

\* l.415: the call through the callback pointer.  The pointer is not volatile
\* and is stored by other threads (l.355, l.374): the build either calls the
\* value it tested or loads the member again.  A call through NULL ends the
\* process.
ring_buffer_write_notify_call ==
    /\ variant = "C99" /\ pc = "ring_buffer_write_call"
    /\ \E loaded \in {frame.invoked, ring.read_callback.callback} :
         /\ frame' = [frame EXCEPT !.invoked = loaded,
                                   !.held = IF mutex.owner = caller
                                            THEN mutex.count ELSE 0]
         /\ pc' = IF loaded = NULL THEN "fault" ELSE "callback"
    /\ UNCHANGED <<variant, other, ring, last, written, consumed, mutex>>

(* --------------------------- specifications ----------------------------- *)
\* The lengths the callers pass: up to one more than the capacity.
Lengths == 0 .. ring.capacity + 1
Thresholds == 0 .. MaxThreshold
\* The data arguments of a write of length bytes, and of a read.
Sources(length) == {Pointer(produce(Len(written), length)), NullPointer}
Destinations == {Pointer(<<>>), NullPointer}

\* A store of either variant right after construction; the backlog is within
\* the capacity, as the data model of the store requires.
Init ==
    /\ variant \in {"C99", "C++11"}
    /\ \E capacity \in 1 .. MaxCapacity : \E backlog \in 0 .. capacity :
         ring = IF variant = "C99" THEN ring_buffer_create(capacity, backlog)
                ELSE ring_buffer_implementation(capacity)
    /\ last = NoCall
    /\ written = <<>>
    /\ consumed = <<>>
    /\ pc = "idle"
    /\ mutex = Unlocked
    /\ frame = NoFrame
    /\ other = NoDuplicate

\* The transfer and observation calls.
Calls ==
    \/ \E length \in Lengths : \E data \in Sources(length) :
         ring_buffer_write(data, length)
    \/ \E length \in Lengths : \E data \in Destinations :
         ring_buffer_read(data, length)
    \/ \E length \in Lengths : ring_buffer_rewind(length)
    \/ available
    \/ \E length \in Lengths : \E data \in Sources(length) : write(data, length)
    \/ \E length \in Lengths : \E data \in Destinations : read(data, length)
    \/ get_available

\* Registrations of the read callback, and of the write callback.
ReadSetters ==
    \/ \E cb \in {callback, NULL} : \E threshold \in Thresholds :
         ring_buffer_set_read_callback(cb, threshold)
    \/ \E cb \in {callback, NULL} : \E threshold \in Thresholds :
         set_read_callback(cb, threshold)

WriteSetters ==
    \/ \E cb \in {callback, NULL} : \E threshold \in Thresholds :
         ring_buffer_set_write_callback(cb, threshold)
    \/ \E cb \in {callback, NULL} : \E threshold \in Thresholds :
         set_write_callback(cb, threshold)

\* Stores on which no callback is ever registered.
Next == Calls
Spec == Init /\ [][Next]_vars

\* Stores whose read callback is registered, replaced and disabled at any time.
NextRead == Calls \/ ReadSetters
SpecRead == Init /\ [][NextRead]_vars

\* Stores whose write callback is registered, replaced and disabled at any time.
NextWrite == Calls \/ WriteSetters
SpecWrite == Init /\ [][NextWrite]_vars

\* The traced caller's calls, step by step.
CallerSteps ==
    \/ \E length \in Lengths : \E data \in Sources(length) :
         ring_buffer_write_enter(data, length)
    \/ ring_buffer_write_critical
    \/ ring_buffer_write_unlock
    \/ ring_buffer_write_notify
    \/ ring_buffer_write_return
    \/ callback_enter
    \/ callback_available
    \/ \E length \in Lengths : \E data \in Sources(length) : write_enter(data, length)
    \/ write_critical
    \/ \E length \in Lengths : \E data \in Destinations : read_enter(data, length)
    \/ read_critical
    \/ exit

\* What the caller does between two traced calls: it registers callbacks, and
\* it drains the C99 store.
Between ==
    \/ ReadSetters
    \/ \E cb \in {callback, NULL} : \E threshold \in Thresholds :
         set_write_callback(cb, threshold)
    \/ \E length \in Lengths : ring_buffer_read(Pointer(<<>>), length)

\* One thread uses the store; its writes, and its C++11 reads, are traced step
\* by step, callbacks included.
NextCallback == CallerSteps \/ (pc = "idle" /\ Between)
SpecCallback == Init /\ [][NextCallback]_vars

\* The calls of another thread on the C99 store: registrations of the read
\* callback, each a whole critical section taken while the lock is free.
OtherThread ==
    \E cb \in {callback, NULL} : \E threshold \in Thresholds :
      ring_buffer_set_read_callback(cb, threshold)

\* The traced caller's ring_buffer_write calls on the C99 store.
WriterSteps ==
    \/ \E length \in Lengths : \E data \in Sources(length) :
         ring_buffer_write_enter(data, length)
    \/ ring_buffer_write_critical
    \/ ring_buffer_write_unlock
    \/ ring_buffer_write_notify
    \/ ring_buffer_write_return
    \/ callback_enter
    \/ callback_available

\* Two threads on one C99 store: a writer, and a thread that registers read
\* callbacks.
InitThreads == Init /\ variant = "C99"
NextThreads == WriterSteps \/ (mutex.owner = nobody /\ OtherThread)
SpecThreads == InitThreads /\ [][NextThreads]_vars

\* Registrations of a callback that every transfer reaches (threshold 0), and
\* registrations of the absent callback with a threshold every count reaches
\* (0) or a large one (MaxThreshold).
Enable ==
    \/ ring_buffer_set_read_callback(callback, 0)
    \/ ring_buffer_set_write_callback(callback, 0)
    \/ set_read_callback(callback, 0)
    \/ set_write_callback(callback, 0)

Disable ==
    \/ \E threshold \in {0, MaxThreshold} :
         ring_buffer_set_read_callback(NULL, threshold)
    \/ \E threshold \in {0, MaxThreshold} :
         ring_buffer_set_write_callback(NULL, threshold)
    \/ \E threshold \in {0, MaxThreshold} : set_read_callback(NULL, threshold)
    \/ \E threshold \in {0, MaxThreshold} : set_write_callback(NULL, threshold)

\* Stores whose two callbacks are switched on and off at any time.
NextDisable == Calls \/ Enable \/ Disable
SpecDisable == Init /\ [][NextDisable]_vars

\* The store of the test "simple": capacity 6, no backlog, either variant,
\* used with any calls.
InitSimple ==
    /\ variant \in {"C99", "C++11"}
    /\ last = NoCall
    /\ written = <<>>
    /\ consumed = <<>>
    /\ pc = "idle"
    /\ mutex = Unlocked
    /\ frame = NoFrame
    /\ other = NoDuplicate
    /\ ring = IF variant = "C99" THEN ring_buffer_create(6, 0)
              ELSE ring_buffer_implementation(6)
SpecSimple == InitSimple /\ [][Next]_vars

\* The calls on the C99 store.
StoreCalls ==
    \/ \E length \in Lengths : \E data \in Sources(length) :
         ring_buffer_write(data, length)
    \/ \E length \in Lengths : \E data \in Destinations :
         ring_buffer_read(data, length)
    \/ \E length \in Lengths : ring_buffer_rewind(length)
    \/ available

\* The store of the rewind scenario: capacity 8, backlog 2.
InitBacklog ==
    /\ variant = "C99"
    /\ last = NoCall
    /\ written = <<>>
    /\ consumed = <<>>
    /\ pc = "idle"
    /\ mutex = Unlocked
    /\ frame = NoFrame
    /\ other = NoDuplicate
    /\ ring = ring_buffer_create(8, 2)
SpecBacklog == InitBacklog /\ [][StoreCalls]_vars

\* The steps of the copy constructor.
CopySteps ==
    \/ copy_read
    \/ copy_write
    \/ copy_lock
    \/ copy_buffer

\* The calls on a C++11 store.
ObjectCalls ==
    \/ \E length \in Lengths : \E data \in Sources(length) : write(data, length)
    \/ \E length \in Lengths : \E data \in Destinations : read(data, length)
    \/ get_available

\* The calls of the test "simple" on the two stores: transfers to and from
\* valid memory, and observations.
SimpleCalls ==
    \/ \E length \in Lengths : write(Pointer(produce(Len(written), length)), length)
    \/ \E length \in Lengths : read(Pointer(<<>>), length)
    \/ get_available
    \/ use_other

\* One thread makes a second store from a C++11 store and uses the two in turn.
InitCopy == Init /\ variant = "C++11"
NextCopy == CopySteps \/ (pc = "idle" /\ SimpleCalls)
SpecCopy == InitCopy /\ [][NextCopy]_vars

\* One thread makes a second store from a C++11 store that other threads write and
\* read, each of their calls a whole critical section taken while the lock is
\* free.
NextCopyThreads == CopySteps \/ (mutex.owner = nobody /\ ObjectCalls)
SpecCopyThreads == InitCopy /\ [][NextCopyThreads]_vars

\* A thread writes and reads a store of the C++98 header built with
\* RING_BUFFER_THREAD_SAFETY, step by step, while another thread asks for the
\* counts.
InitGeneric ==
    /\ variant = "C++98"
    /\ \E capacity \in 1 .. MaxCapacity : ring = generic_ring_buffer(capacity)
    /\ last = NoCall
    /\ written = <<>>
    /\ consumed = <<>>
    /\ pc = "idle"
    /\ mutex = Unlocked
    /\ frame = NoFrame
    /\ other = NoDuplicate

NextGeneric ==
    \/ \E length \in Lengths : \E data \in Sources(length) :
         generic_write_enter(data, length)
    \/ generic_write_critical
    \/ \E length \in Lengths : \E data \in Destinations :
         generic_read_enter(data, length)
    \/ generic_read_critical
    \/ generic_get_available
SpecGeneric == InitGeneric /\ [][NextGeneric]_vars

\* Registrations on the C99 store, of the callback and of the absent one,
\* with a threshold every count reaches.
Registrations ==
    \/ \E cb \in {callback, NULL} : ring_buffer_set_read_callback(cb, 0)
    \/ \E cb \in {callback, NULL} : ring_buffer_set_write_callback(cb, 0)

\* C99 stores that are written, read, rewound and observed while both
\* callbacks are registered and disabled at any time.
NextRegister == StoreCalls \/ Registrations
SpecRegister == InitThreads /\ [][NextRegister]_vars

\* Stores of either variant on which the callback is registered, on either
\* side, with a threshold every count reaches.
NextEnable == Calls \/ Enable
SpecEnable == Init /\ [][NextEnable]_vars

\* A store without backlog, of either variant, that has been in use for so
\* long that its cursors are about to pass the largest size_t: it holds no
\* readable byte, and every cell of its array holds a byte written long ago
\* (0 here).
Aged(r, cursor) ==
    [r EXCEPT !.read = cursor, !.write = cursor,
              !.buffer = [i \in DOMAIN r.buffer |-> 0]]

InitAged ==
    /\ variant \in {"C99", "C++11"}
    /\ \E capacity \in 1 .. MaxCapacity : \E cursor \in Word - MaxPos .. Word - 1 :
         ring = Aged(IF variant = "C99" THEN ring_buffer_create(capacity, 0)
                     ELSE ring_buffer_implementation(capacity), cursor)
    /\ last = NoCall
    /\ written = <<>>
    /\ consumed = <<>>
    /\ pc = "idle"
    /\ mutex = Unlocked
    /\ frame = NoFrame
    /\ other = NoDuplicate
SpecAged == InitAged /\ [][Next]_vars

\* The stores ring_buffer_create returns: it stores the backlog it is given,
\* whatever the capacity.
InitCreate ==
    /\ variant = "C99"
    /\ \E capacity \in 1 .. MaxCapacity : \E backlog \in 0 .. capacity + 1 :
         ring = ring_buffer_create(capacity, backlog)
    /\ last = NoCall
    /\ written = <<>>
    /\ consumed = <<>>
    /\ pc = "idle"
    /\ mutex = Unlocked
    /\ frame = NoFrame
    /\ other = NoDuplicate
SpecCreate == InitCreate /\ [][StoreCalls]_vars

\* C99 stores that are written, read, rewound and observed while the read
\* callback is registered and disabled at any time, with a threshold that one
\* readable byte reaches (1) or a large one (MaxThreshold).
NextRewind ==
    \/ StoreCalls
    \/ \E cb \in {callback, NULL} : \E threshold \in {1, MaxThreshold} :
         ring_buffer_set_read_callback(cb, threshold)
SpecRewind == InitThreads /\ [][NextRewind]_vars

\* The traced caller's transfers, one memcpy at a time.
TransferSteps ==
    \/ \E length \in Lengths : \E data \in Sources(length) :
         ring_buffer_write_enter(data, length)
    \/ ring_buffer_write_test
    \/ ring_buffer_write_memcpy
    \/ ring_buffer_write_unlock
    \/ ring_buffer_write_notify
    \/ ring_buffer_write_return
    \/ \E length \in Lengths : \E data \in Sources(length) : write_enter(data, length)
    \/ write_test
    \/ write_memcpy_pass
    \/ \E length \in Lengths : \E data \in Destinations : read_enter(data, length)
    \/ read_test
    \/ read_memcpy_pass
    \/ exit

\* The calls of the other threads on the same store: each is a whole critical
\* section, entered when the lock is free for them.
OtherCalls ==
    \/ available
    \/ get_available
    \/ \E length \in Lengths : ring_buffer_write(Pointer(produce(Len(written), length)), length)
    \/ \E length \in Lengths : ring_buffer_read(Pointer(<<>>), length)
    \/ \E length \in Lengths : write(Pointer(produce(Len(written), length)), length)
    \/ \E length \in Lengths : read(Pointer(<<>>), length)

\* Several threads transfer through one store on which no callback is
\* registered and nothing is rewound; one of them is traced memcpy by memcpy.
InitExclusive ==
    /\ variant \in {"C99", "C++11"}
    /\ \E capacity \in 1 .. MaxCapacity :
         ring = IF variant = "C99" THEN ring_buffer_create(capacity, 0)
                ELSE ring_buffer_implementation(capacity)
    /\ last = NoCall
    /\ written = <<>>
    /\ consumed = <<>>
    /\ pc = "idle"
    /\ mutex = Unlocked
    /\ frame = NoFrame
    /\ other = NoDuplicate
NextExclusive == TransferSteps \/ (Free(mutex) /\ OtherCalls)
SpecExclusive == InitExclusive /\ [][NextExclusive]_vars

\* The traced caller's ring_buffer_write calls on the C99 store, with the test
\* and the call of l.414-415 as separate steps.
WriterLoads ==
    \/ \E length \in Lengths : \E data \in Sources(length) :
         ring_buffer_write_enter(data, length)
    \/ ring_buffer_write_critical
    \/ ring_buffer_write_unlock
    \/ ring_buffer_write_notify_test
    \/ ring_buffer_write_notify_call
    \/ ring_buffer_write_return
    \/ callback_enter
    \/ callback_available

\* Two threads on one C99 store: a writer, and a thread that registers and
\* disables read callbacks.
NextLoads == WriterLoads \/ (Free(mutex) /\ pc # "fault" /\ OtherThread)
SpecLoads == InitThreads /\ [][NextLoads]_vars

\* The calls of a reader thread on the C99 store, each a whole critical
\* section.
ReaderThread ==
    \E length \in Lengths : ring_buffer_read(Pointer(<<>>), length)

\* Two threads on one C99 store: a writer, which registers the read callback
\* between its writes, and a reader.
NextReader ==
    \/ WriterSteps
    \/ pc = "idle" /\ \E threshold \in Thresholds :
                        ring_buffer_set_read_callback(callback, threshold)
    \/ Free(mutex) /\ ReaderThread
SpecReader == InitThreads /\ [][NextReader]_vars

\* Registrations of a callback with a threshold that some counts reach and
\* others do not.
Levels ==
    \/ \E threshold \in {1, MaxThreshold} :
         ring_buffer_set_read_callback(callback, threshold)
    \/ \E threshold \in {1, MaxThreshold} :
         ring_buffer_set_write_callback(callback, threshold)
    \/ \E threshold \in {1, MaxThreshold} : set_read_callback(callback, threshold)
    \/ \E threshold \in {1, MaxThreshold} : set_write_callback(callback, threshold)

\* Stores whose callbacks are registered at any time with such thresholds.
NextLevels == Calls \/ Levels
SpecLevels == Init /\ [][NextLevels]_vars

(* ------------------------------ properties ------------------------------ *)
\* The counts as the claims compute them, in unbounded integers.
Readable == ring.write - ring.read
Spendable == ring.capacity - ring.backlog + ring.rewind

\* C1: in the C99 rewind-capable store, after every sequence of write, read
\* and rewind calls (successful or failed), the counts ring_buffer_available
\* reports satisfy 0 <= readable <= capacity - backlog + rewind_credit and
\* readable + writable = capacity - backlog + rewind_credit.
C1_CapacityInvariantRewind ==
    variant = "C99" =>
        LET got == ring_buffer_available(ring)
        IN  /\ 0 <= got.read
            /\ got.read <= Spendable
            /\ got.read + got.write = Spendable

\* A failed rewind on a store that holds readable bytes and rewind credit,
\* after the write cursor has passed the end of the array.
C1_Witness ==
    /\ variant = "C99"
    /\ last.op = "rewind" /\ last.status = RING_BUFFER_UNDERFLOW
    /\ ring.rewind > 0 /\ Readable > 0 /\ ring.write > ring.capacity

\* C2: in the C++11 ring_buffer, after every sequence of write and read calls
\* (successful or throwing), get_available reports 0 <= readable <= capacity
\* and readable + writable = capacity.
C2_CapacityInvariant ==
    variant = "C++11" =>
        /\ 0 <= ring_buffer_readable(ring)
        /\ ring_buffer_readable(ring) <= ring.capacity
        /\ ring_buffer_readable(ring) + ring_buffer_writable(ring) = ring.capacity

\* A write that threw the overflow exception on a full buffer whose write
\* cursor has passed the end of the array.
C2_Witness ==
    /\ variant = "C++11"
    /\ last.op = "write" /\ last.status = RING_BUFFER_OVERFLOW
    /\ ring_buffer_readable(ring) = ring.capacity /\ ring.write > ring.capacity

\* s is a prefix of t.
IsPrefix(s, t) == Len(s) <= Len(t) /\ SubSeq(t, 1, Len(s)) = s

\* C3: in the non-rewind buffer, the concatenation of the bytes returned by
\* the successful reads is a prefix of the concatenation of the bytes accepted
\* by the successful writes (FIFO), whatever the lengths and also across the
\* physical end of the array; a refused write adds nothing to the stream.
C3_Fifo ==
    (variant = "C++11" \/ ring.backlog = 0) => IsPrefix(consumed, written)

\* A read of at least two bytes that straddled the end of the array.
C3_Witness ==
    /\ variant = "C++11"
    /\ last.op = "read" /\ last.status = RING_BUFFER_SUCCESS /\ last.length >= 2
    /\ ring.read % ring.capacity > 0 /\ ring.read % ring.capacity < last.length
    /\ Len(consumed) > ring.capacity

\* What available() / get_available returns for the store r.
Counts(r) ==
    IF variant = "C99"
    THEN LET got == ring_buffer_available(r) IN <<got.read, got.write, got.rewind>>
    ELSE <<ring_buffer_readable(r), ring_buffer_writable(r)>>

\* C4: a write refused with Overflow, a read refused with Underflow and a
\* rewind refused with Underflow leave the whole store as it was: cursors,
\* rewind credit, every storage byte and both callback registrations; so
\* available() returns the same tuple before and after the call.
C4_FailureAtomic ==
    [][last'.status \in {RING_BUFFER_OVERFLOW, RING_BUFFER_UNDERFLOW} =>
         /\ ring' = ring
         /\ Counts(ring') = Counts(ring)]_vars

\* A refused rewind on a store with a registered read callback, readable
\* bytes and banked rewind credit.
C4_Witness ==
    /\ variant = "C99"
    /\ last.op = "rewind" /\ last.status = RING_BUFFER_UNDERFLOW
    /\ ring.read_callback.callback # NULL
    /\ Readable > 0 /\ ring.rewind > 0

\* C5: write(data, length) with non-null data succeeds if and only if
\* length <= writable = capacity - backlog + rewind_credit - (write_pos -
\* read_pos), and reports Overflow otherwise; on success write_pos grows by
\* exactly length and byte i of data lies at physical offset
\* (old write_pos + i) mod capacity.
C5_WriteContract ==
    [][(last'.op = "write" /\ last'.status # RING_BUFFER_INVALID_ADDRESS) =>
         LET length == last'.length
             ok     == last'.status = RING_BUFFER_SUCCESS
         IN  /\ ok <=> length <= Spendable - Readable
             /\ ~ok => last'.status = RING_BUFFER_OVERFLOW
             /\ ok => /\ ring'.write = ring.write + length
                      /\ \A i \in 0 .. length - 1 :
                           ring'.buffer[(ring.write + i) % ring.capacity] =
                           last'.data[i + 1]]_vars

\* A successful write of at least two bytes that straddled the end of the array.
C5_Witness ==
    /\ last.op = "write" /\ last.status = RING_BUFFER_SUCCESS /\ last.length >= 2
    /\ ring.write % ring.capacity > 0 /\ ring.write % ring.capacity < last.length

\* C6: read(data, length) with non-null data succeeds if and only if
\* length <= readable = write_pos - read_pos, and reports Underflow with no
\* partial read otherwise; on success read_pos grows by exactly length and the
\* caller receives, in order, the bytes the storage holds for the logical
\* positions old read_pos .. old read_pos + length - 1 (offsets mod capacity).
C6_ReadContract ==
    [][(last'.op = "read" /\ last'.status # RING_BUFFER_INVALID_ADDRESS) =>
         LET length == last'.length
             ok     == last'.status = RING_BUFFER_SUCCESS
         IN  /\ ok <=> length <= Readable
             /\ ~ok => /\ last'.status = RING_BUFFER_UNDERFLOW
                       /\ last'.data = <<>>
                       /\ ring'.read = ring.read
             /\ ok => /\ ring'.read = ring.read + length
                      /\ Len(last'.data) = length
                      /\ \A i \in 0 .. length - 1 :
                           last'.data[i + 1] =
                           ring.buffer[(ring.read + i) % ring.capacity]]_vars

\* A successful read of at least two bytes that straddled the end of the array.
C6_Witness ==
    /\ last.op = "read" /\ last.status = RING_BUFFER_SUCCESS /\ last.length >= 2
    /\ ring.read % ring.capacity > 0 /\ ring.read % ring.capacity < last.length

\* C7: in the C99 rewind-capable store, when read(N) succeeds with
\* N <= backlog and rewind(N) directly follows, the rewind succeeds and the
\* read(N) that directly follows it succeeds and returns the same N bytes.
C7_RewindReplay ==
    /\ (last.op = "rewind" /\ last.replay # <<>> /\ last.length <= ring.backlog)
         => last.status = RING_BUFFER_SUCCESS
    /\ (last.op = "read" /\ last.replay # <<>>)
         => (last.status = RING_BUFFER_SUCCESS /\ last.data = last.replay)

\* The replayed read of two bytes has been made, across the end of the array.
C7_Witness ==
    /\ last.op = "read" /\ last.replay # <<>> /\ last.length = 2
    /\ ring.read % ring.capacity = 1

\* C8: ring_buffer_rewind(length) fails with Underflow if and only if
\* length > backlog or length > read_pos; when it succeeds read_pos decreases
\* by exactly length and rewind_credit increases by exactly length.
C8_RewindContract ==
    [][last'.op = "rewind" =>
         LET length == last'.length
         IN  /\ last'.status \in {RING_BUFFER_SUCCESS, RING_BUFFER_UNDERFLOW}
             /\ last'.status = RING_BUFFER_UNDERFLOW <=>
                  (length > ring.backlog \/ length > ring.read)
             /\ last'.status = RING_BUFFER_SUCCESS =>
                  /\ ring'.read = ring.read - length
                  /\ ring'.rewind = ring.rewind + length]_vars

\* A successful rewind of at least one byte made while credit was banked.
C8_Witness ==
    /\ last.op = "rewind" /\ last.status = RING_BUFFER_SUCCESS
    /\ last.length >= 1 /\ ring.rewind > last.length

\* C9: in every reachable state of the C99 rewind-capable store,
\* rewind_credit <= min(read_pos, backlog): the banked credit exceeds neither
\* the reserved backlog nor read_pos, also after several rewinds in a row.
C9_RewindCreditBound ==
    variant = "C99" => ring.rewind <= min(ring.read, ring.backlog)

\* C10 as the specification states it (edge-triggered): with a read callback
\* registered at threshold T, a successful write invokes the callback exactly
\* when it brings readable from below T to at or above T, and a write made
\* while readable is already at or above T does not invoke it.  Stated for
\* thresholds and writes of at least one byte, where a crossing is possible.
C10_EdgeTriggered ==
    [][(/\ last'.op = "write" /\ last'.status = RING_BUFFER_SUCCESS
        /\ ring'.read_callback.callback # NULL
        /\ ring'.read_callback.threshold >= 1 /\ last'.length >= 1) =>
         LET T == ring'.read_callback.threshold
         IN  last'.notified = 1 <=> (Readable < T /\ Readable' >= T)]_vars

\* C10 as the code behaves (level-triggered): with a read callback registered
\* at threshold T, the successful write that brings readable from below T to
\* at or above T invokes the callback exactly once, and so does every
\* successful write made while readable is already at or above T; a write that
\* leaves readable below T does not invoke it.
C10_LevelTriggered ==
    [][(/\ last'.op = "write" /\ last'.status = RING_BUFFER_SUCCESS
        /\ ring'.read_callback.callback # NULL) =>
         LET T == ring'.read_callback.threshold
         IN  /\ last'.notified \in {0, 1}
             /\ (Readable < T /\ Readable' >= T) => last'.notified = 1
             /\ Readable >= T => last'.notified = 1
             /\ Readable' < T => last'.notified = 0]_vars

\* A successful write of at least one byte, made while readable was already at
\* or above the threshold of the registered read callback, invoked the callback.
C10_Witness ==
    /\ last.op = "write" /\ last.status = RING_BUFFER_SUCCESS
    /\ last.length >= 1 /\ last.notified = 1
    /\ ring.read_callback.callback # NULL
    /\ ring.read_callback.threshold >= 1
    /\ Readable - last.length >= ring.read_callback.threshold

\* C11: a successful write invokes the read callback, once, if and only if a
\* read callback is registered and the post-write readable = write_pos -
\* read_pos is at least the registered threshold; a write that leaves readable
\* below the threshold, or is made with no callback registered, invokes nothing.
C11_ReadCallbackIff ==
    [][(last'.op = "write" /\ last'.status = RING_BUFFER_SUCCESS) =>
         /\ last'.notified \in {0, 1}
         /\ last'.notified = 1 <=>
              /\ ring'.read_callback.callback # NULL
              /\ Readable' >= ring'.read_callback.threshold]_vars

\* A successful write made with a read callback registered at a threshold of
\* at least two bytes left readable one byte short of it and invoked nothing.
C11_Witness ==
    /\ last.op = "write" /\ last.status = RING_BUFFER_SUCCESS
    /\ last.length >= 1 /\ last.notified = 0
    /\ ring.read_callback.callback # NULL
    /\ ring.read_callback.threshold >= 2
    /\ Readable = ring.read_callback.threshold - 1

\* C12: a successful read invokes the write callback if and only if a write
\* callback is registered and the post-read writable = capacity - backlog +
\* rewind_credit - readable, with the rewind credit already reduced by the
\* read, is at least the registered threshold.
C12_WriteCallbackIff ==
    [][(last'.op = "read" /\ last'.status = RING_BUFFER_SUCCESS) =>
         /\ last'.notified \in {0, 1}
         /\ last'.notified = 1 <=>
              /\ ring'.write_callback.callback # NULL
              /\ Spendable' - Readable' >= ring'.write_callback.threshold]_vars

\* A successful read on the rewind-capable store that left rewind credit
\* banked and invoked the write callback, the writable count reaching the
\* threshold only thanks to that credit.
C12_Witness ==
    /\ variant = "C99"
    /\ last.op = "read" /\ last.status = RING_BUFFER_SUCCESS
    /\ last.length >= 1 /\ last.notified = 1
    /\ ring.write_callback.callback # NULL
    /\ ring.rewind >= 1
    /\ ring.capacity - ring.backlog - Readable < ring.write_callback.threshold

\* C13: in the C++11 ring_buffer, a callback triggered by write or read is
\* invoked only after the triggering operation has released the recursive
\* mutex: the calling thread does not hold the lock while the callback runs.
C13_CallbackOutsideLock ==
    (variant = "C++11" /\ pc \in {"callback", "callback_available"}) =>
        /\ frame.held = 0
        /\ (pc = "callback" => mutex.owner # caller)

\* C14: when the read callback invoked by a write calls get_available (C99:
\* ring_buffer_available) on the same buffer from the same thread, in
\* single-threaded use, the call can take the lock (no deadlock) and reports
\* the post-write counts: readable includes all bytes of the triggering write
\* and is at least the threshold.
C14_CallbackSeesPostWrite ==
    /\ (pc = "callback" /\ frame.op = "write") => CanLock(mutex)
    /\ (frame.op = "write" /\ frame.seen # <<>>) =>
         /\ frame.seen[1] = Readable
         /\ frame.seen[1] >= frame.length
         /\ frame.seen[1] >= frame.tested.threshold
         /\ Len(written) - Len(consumed) = frame.seen[1]

\* The read callback of a C++11 write of at least one byte has obtained the
\* counts while its caller held the lock.
C14_Witness ==
    /\ variant = "C++11" /\ frame.op = "write" /\ frame.length >= 1
    /\ frame.seen # <<>> /\ frame.held >= 1
    /\ frame.tested.threshold >= 2

\* C15: in the C99 rewind-capable store, whenever a write invokes a read
\* callback, the callback invoked and the threshold tested belong to the same
\* registration, for every interleaving of ring_buffer_write with
\* ring_buffer_set_read_callback on another thread.  Stated for thresholds
\* that were assigned by a registration.
C15_SameRegistration ==
    (/\ variant = "C99" /\ frame.op = "write" /\ frame.invoked # NULL
     /\ frame.tested.threshold # Indeterminate) =>
        frame.invoked = frame.tested.callback

\* C16: after set_read_callback (resp. set_write_callback) was called with an
\* absent (NULL) callback, no write (resp. read) invokes a callback, whatever
\* the counts and whatever threshold was passed with NULL, until a non-null
\* callback is registered again: a registration of NULL leaves the callback
\* absent, only a registration changes it, and a transfer made while it is
\* absent invokes nothing.
C16_NullDisables ==
    [][/\ (last'.op = "set_read_callback" /\ last'.data = <<NULL>>)
            => ring'.read_callback.callback = NULL
       /\ (last'.op = "set_write_callback" /\ last'.data = <<NULL>>)
            => ring'.write_callback.callback = NULL
       /\ last'.op \notin {"set_read_callback", "set_write_callback"}
            => /\ ring'.read_callback = ring.read_callback
               /\ ring'.write_callback = ring.write_callback
       /\ (last'.op = "write" /\ ring.read_callback.callback = NULL)
            => last'.notified = 0
       /\ (last'.op = "read" /\ ring.write_callback.callback = NULL)
            => last'.notified = 0]_vars

\* A successful write of at least one byte invoked nothing on a store whose
\* read callback was disabled with a threshold the readable count reaches,
\* while the write callback is still registered.
C16_Witness ==
    /\ last.op = "write" /\ last.status = RING_BUFFER_SUCCESS
    /\ last.length >= 1 /\ last.notified = 0
    /\ ring.read_callback = [callback |-> NULL, threshold |-> 0]
    /\ ring.write_callback.callback # NULL

\* The pair (readable, writable) that available() reports for the store r.
Pair(r) == <<Counts(r)[1], Counts(r)[2]>>

\* The store stands where the scenario has written w bytes and read r bytes.
At(w, r) == ring.write = w /\ ring.read = r /\ ring.rewind = 0

\* The call just made is op with length bytes and a valid data pointer.
Made(op, length) ==
    /\ last'.op = op /\ last'.length = length
    /\ last'.status # RING_BUFFER_INVALID_ADDRESS

\* C17: on a non-rewind buffer of capacity 6: available is (0,6) at first;
\* after write 1 and write 2 it is (3,3); write 4 then fails with Overflow and
\* available stays (3,3); read 1 returns the first byte written and gives
\* (2,4); write 4 gives (6,0); read 2 then read 4 return the written bytes in
\* order and give (0,6); a further read of 4 fails with Underflow and
\* available stays (0,6).
C17_SimpleScenario ==
    [][/\ At(0, 0) => Pair(ring) = <<0, 6>>
       /\ (At(0, 0) /\ Made("write", 1)) =>
            (last'.status = RING_BUFFER_SUCCESS /\ ring'.write = 1)
       /\ (At(1, 0) /\ Made("write", 2)) =>
            (last'.status = RING_BUFFER_SUCCESS /\ Pair(ring') = <<3, 3>>)
       /\ (At(3, 0) /\ Made("write", 4)) =>
            (last'.status = RING_BUFFER_OVERFLOW /\ Pair(ring') = <<3, 3>>)
       /\ (At(3, 0) /\ Made("read", 1)) =>
            /\ last'.status = RING_BUFFER_SUCCESS
            /\ last'.data = SubSeq(written, 1, 1)
            /\ Pair(ring') = <<2, 4>>
       /\ (At(3, 1) /\ Made("write", 4)) =>
            (last'.status = RING_BUFFER_SUCCESS /\ Pair(ring') = <<6, 0>>)
       /\ (At(7, 1) /\ Made("read", 2)) =>
            /\ last'.status = RING_BUFFER_SUCCESS
            /\ last'.data = SubSeq(written, 2, 3)
            /\ Pair(ring') = <<4, 2>>
       /\ (At(7, 3) /\ Made("read", 4)) =>
            /\ last'.status = RING_BUFFER_SUCCESS
            /\ last'.data = SubSeq(written, 4, 7)
            /\ Pair(ring') = <<0, 6>>
       /\ (At(7, 7) /\ Made("read", 4)) =>
            (last'.status = RING_BUFFER_UNDERFLOW /\ Pair(ring') = <<0, 6>>)]_vars

\* The end of the scenario: seven bytes written and read back in order, and
\* the further read of 4 refused.
C17_Witness ==
    /\ ring.capacity = 6 /\ At(7, 7)
    /\ Len(written) = 7 /\ consumed = written
    /\ last.op = "read" /\ last.length = 4
    /\ last.status = RING_BUFFER_UNDERFLOW

\* C18 as the specification states it: when the buffer is empty (readable =
\* 0), a read of any length fails with Underflow.
C18_EmptyReadAnyLength ==
    [][(Readable = 0 /\ last'.op = "read"
        /\ last'.status # RING_BUFFER_INVALID_ADDRESS) =>
         last'.status = RING_BUFFER_UNDERFLOW]_vars

\* C18 as the code behaves: when the buffer is empty, a read of one byte or
\* more fails with Underflow and returns nothing; a read of no bytes succeeds.
C18_EmptyRead ==
    [][(Readable = 0 /\ last'.op = "read"
        /\ last'.status # RING_BUFFER_INVALID_ADDRESS) =>
         /\ last'.length >= 1 =>
              (last'.status = RING_BUFFER_UNDERFLOW /\ last'.data = <<>>)
         /\ last'.length = 0 => last'.status = RING_BUFFER_SUCCESS
         /\ ring'.read = ring.read]_vars

\* A read of one byte or more was refused on a buffer that was used and
\* emptied.
C18_Witness ==
    /\ last.op = "read" /\ last.status = RING_BUFFER_UNDERFLOW
    /\ last.length >= 1
    /\ Readable = 0 /\ ring.read >= ring.capacity

\* C19: on a store created with capacity 8 and backlog 2, after writing 3
\* bytes and reading 1 byte ring_buffer_available reports (readable, writable,
\* rewindable) = (2, 4, 1), and ring_buffer_rewind(2) then fails with
\* Underflow and leaves that tuple unchanged.
C19_RewindScenario ==
    [][At(3, 1) =>
         /\ Counts(ring) = <<2, 4, 1>>
         /\ (last'.op = "rewind" /\ last'.length = 2) =>
              /\ last'.status = RING_BUFFER_UNDERFLOW
              /\ Counts(ring') = <<2, 4, 1>>]_vars

\* The rewind of 2 was refused after 3 bytes were written and 1 was read.
C19_Witness ==
    /\ ring.capacity = 8 /\ ring.backlog = 2 /\ At(3, 1)
    /\ Len(written) = 3 /\ Len(consumed) = 1
    /\ last.op = "rewind" /\ last.length = 2
    /\ last.status = RING_BUFFER_UNDERFLOW

\* C20: available() / get_available is purely observational: it changes none
\* of the cursors, the rewind credit, the storage bytes or the callback
\* registrations, it invokes no callback, and two consecutive calls with no
\* operation in between return the same tuple.
C20_AvailableObserves ==
    [][last'.op = "available" =>
         /\ ring' = ring
         /\ last'.status = RING_BUFFER_SUCCESS /\ last'.notified = 0
         /\ last'.data = Counts(ring)
         /\ last.op = "available" => last'.data = last.data]_vars

\* The counts were obtained from a store that holds readable bytes and rewind
\* credit and has a read callback registered whose threshold is reached.
C20_Witness ==
    /\ last.op = "available" /\ last.data = Counts(ring)
    /\ Readable >= 1 /\ ring.rewind >= 1
    /\ ring.read_callback.callback # NULL
    /\ Readable >= ring.read_callback.threshold

\* The bytes a read of everything readable would take from the store r.
ReadableBytes(r) ==
    read_loop(r.buffer, r.read, r.capacity, <<>>, ring_buffer_readable(r), 0).data

\* C21: in a single-threaded program, the store the C++11 copy constructor
\* makes starts with the readable count, the writable count and the readable
\* byte sequence of the source; afterwards no write, read or observation on
\* one of the two stores changes the cursors, the bytes or the counts of the
\* other one.
C21_CopyIndependent ==
    [][ /\ (pc = "copy_buffer" /\ pc' = "idle") =>
            /\ other'.exists
            /\ ring' = ring
            /\ ring_buffer_readable(other'.store) = ring_buffer_readable(ring)
            /\ ring_buffer_writable(other'.store) = ring_buffer_writable(ring)
            /\ ReadableBytes(other'.store) = ReadableBytes(ring)
        /\ (other.exists /\ last'.op \in {"write", "read", "available"}) =>
            other' = other
      ]_vars

\* The two stores have diverged: a write succeeded on one of them while the
\* other one still holds readable bytes behind a different write cursor.
C21_Witness ==
    /\ other.exists
    /\ last.op = "write" /\ last.status = RING_BUFFER_SUCCESS /\ last.length >= 1
    /\ ring_buffer_readable(other.store) >= 1
    /\ ring.write # other.store.write
    /\ ReadableBytes(ring) # ReadableBytes(other.store)

\* C22: a store made by the copy constructor while other threads write and
\* read the source is a snapshot of the source at one instant: its cursors
\* satisfy 0 <= write - read <= capacity, and its readable bytes are the bytes
\* the source has accepted at the positions from its read cursor up to its
\* write cursor.
C22_ConsistentSnapshot ==
    other.exists =>
        LET made == other.store
        IN  /\ 0 <= made.write - made.read
            /\ made.write - made.read <= made.capacity
            /\ ReadableBytes(made) = SubSeq(written, made.read + 1, made.write)

\* C23: in the C++98 header-only generic_ring_buffer built with
\* RING_BUFFER_THREAD_SAFETY, every operation releases the lock before it
\* returns or throws: between two calls the calling thread holds no lock, also
\* after a write that threw the overflow exception or a read that threw the
\* underflow exception, so that another thread's call can take the lock.
C23_LockReleased ==
    (variant = "C++98" /\ pc = "idle") => mutex.owner = nobody

\* Every memcpy of a copy loop stays within the physical array: it copies at
\* most capacity - (pos mod capacity) bytes.
WithinArray(copies, capacity) ==
    \A i \in DOMAIN copies : copies[i].size <= capacity - (copies[i].pos % capacity)

\* C24: for every successful write or read call, in every reachable state of
\* both variants, the transferred length does not exceed the capacity and the
\* wraparound copy loop ends after at most 2 iterations, each copying at most
\* capacity - (pos mod capacity) bytes.
C24_TwoCopies ==
    [][ /\ (last'.op = "write" /\ last'.status = RING_BUFFER_SUCCESS /\ ring' # ring) =>
            LET done == write_loop(ring.buffer, ring.write, ring.capacity,
                                   last'.data, last'.length, 0)
            IN  /\ done.buffer = ring'.buffer /\ done.write = ring'.write
                /\ last'.length <= ring.capacity
                /\ done.iterations <= 2
                /\ WithinArray(done.copies, ring.capacity)
        /\ (last'.op = "read" /\ last'.status = RING_BUFFER_SUCCESS /\ ring' # ring) =>
            LET done == read_loop(ring.buffer, ring.read, ring.capacity, <<>>,
                                  last'.length, 0)
            IN  /\ done.read = ring'.read
                /\ last'.length <= ring.capacity
                /\ done.iterations <= 2
                /\ WithinArray(done.copies, ring.capacity)
      ]_vars

\* The cells of the array that differ between the stores r and q.
Changed(r, q) == {i \in DOMAIN r.buffer : q.buffer[i] # r.buffer[i]}

\* The cells a write of length bytes at the write cursor of r copies to.
Target(r, length) == {Add(r.write, k) % r.capacity : k \in 0 .. length - 1}

\* C25: each operation changes only its own part of the store: a write the
\* write cursor and the cells at the written positions; a read and a rewind
\* the read cursor and the rewind credit; a callback setter its registration;
\* and no operation changes the capacity or the backlog.
C25_FrameEffects ==
    [][ /\ ring'.capacity = ring.capacity /\ ring'.backlog = ring.backlog
        /\ last'.op = "write" =>
            /\ ring' = [ring EXCEPT !.write = ring'.write, !.buffer = ring'.buffer]
            /\ Changed(ring, ring') \subseteq Target(ring, last'.length)
        /\ last'.op \in {"read", "rewind"} =>
            ring' = [ring EXCEPT !.read = ring'.read, !.rewind = ring'.rewind]
        /\ last'.op = "set_read_callback" =>
            ring' = [ring EXCEPT !.read_callback = ring'.read_callback]
        /\ last'.op = "set_write_callback" =>
            ring' = [ring EXCEPT !.write_callback = ring'.write_callback]
      ]_vars

\* A write has wrapped around the end of the array of a store that has a
\* read cursor, rewind credit and both registrations to leave alone.
C25_Witness ==
    /\ variant = "C99"
    /\ last.op = "write" /\ last.status = RING_BUFFER_SUCCESS /\ last.length >= 2
    /\ ring.write % ring.capacity < last.length
    /\ ring.write % ring.capacity > 0
    /\ ring.read > 0 /\ ring.rewind > 0
    /\ ring.read_callback.callback = callback
    /\ ring.write_callback.callback = callback

\* C26: a write or a read that is given a null data pointer fails with
\* INVALID_ADDRESS whatever the length and the state of the store (also when
\* the length would overflow or underflow); it changes no cursor and no cell
\* and invokes no callback.
C26_NullData ==
    [][ (last'.op \in {"write", "read"} /\ last'.address = NULL) =>
            /\ last'.status = RING_BUFFER_INVALID_ADDRESS
            /\ last'.notified = 0
            /\ last'.data = <<>>
            /\ UNCHANGED <<ring, written, consumed>>
      ]_vars

\* A read of more bytes than are readable was given a null pointer, on a store
\* that holds bytes and has both callbacks registered.
C26_Witness ==
    /\ last.op = "read" /\ last.address = NULL
    /\ last.status = RING_BUFFER_INVALID_ADDRESS
    /\ Readable >= 1 /\ last.length > Readable
    /\ ring.read_callback.callback = callback
    /\ ring.write_callback.callback = callback

\* C27: on a store without backlog whose cursors are size_t values (modulo
\* Word), a write of capacity bytes to the empty store succeeds and fills it,
\* and a read of capacity bytes from the full store succeeds and leaves
\* available() at (0, capacity), also when a cursor passes the largest size_t
\* during the cycle or has passed it before.
C27_CycleAcrossWrap ==
    [][ /\ (/\ ring.backlog = 0 /\ ring.rewind = 0
            /\ ring_buffer_readable(ring) = 0
            /\ Made("write", ring.capacity)) =>
                /\ last'.status = RING_BUFFER_SUCCESS
                /\ Pair(ring') = <<ring.capacity, 0>>
        /\ (/\ ring.backlog = 0 /\ ring.rewind = 0
            /\ ring_buffer_readable(ring) = ring.capacity
            /\ Made("read", ring.capacity)) =>
                /\ last'.status = RING_BUFFER_SUCCESS
                /\ Pair(ring') = <<0, ring.capacity>>
      ]_vars

\* A cycle has ended on a store whose cursors passed the largest size_t in the
\* middle of a transfer: the read of capacity bytes succeeded and the cursors
\* are small again, at a position that is not a multiple of the capacity.
C27_Witness ==
    /\ last.op = "read" /\ last.status = RING_BUFFER_SUCCESS
    /\ last.length = ring.capacity /\ ring.capacity >= 2
    /\ ring.read = ring.write /\ ring.read < ring.capacity
    /\ ring.read >= 1
    /\ Pair(ring) = <<0, ring.capacity>>

\* C28: every store ring_buffer_create returns has backlog <= capacity, and a
\* fresh store reports available() = (0, capacity - backlog, 0).
C28_BacklogWithinCapacity ==
    variant = "C99" =>
        /\ ring.backlog <= ring.capacity
        /\ last = NoCall =>
             Counts(ring) = <<0, ring.capacity - ring.backlog, 0>>

\* C29: in the rewind-capable store a successful read of length bytes leaves
\* the rewind credit at max(0, credit - length): the credit does not grow on a
\* read and does not wrap below 0, for every length and every prior credit.
C29_ReadSpendsCredit ==
    [][ (/\ variant = "C99" /\ last'.op = "read"
         /\ last'.status = RING_BUFFER_SUCCESS /\ ring' # ring) =>
            /\ ring'.rewind =
                 IF ring.rewind - last'.length > 0
                 THEN ring.rewind - last'.length ELSE 0
            /\ ring'.rewind <= ring.rewind
            /\ ring'.rewind >= 0
      ]_vars

\* A read has spent a part of the credit: bytes were read and credit is left.
C29_Witness ==
    /\ variant = "C99"
    /\ last.op = "read" /\ last.status = RING_BUFFER_SUCCESS /\ last.length >= 1
    /\ ring.rewind >= 1

\* C30: ring_buffer_rewind invokes no callback, whether it succeeds or fails,
\* also when the bytes it re-exposes raise the readable count from below the
\* threshold of the registered read callback to the threshold or above.
C30_RewindSilent ==
    [][ last'.op = "rewind" => last'.notified = 0 ]_vars

\* A rewind has succeeded on a store with a registered read callback, and
\* took the readable count from below the threshold to the threshold or above.
C30_Witness ==
    /\ last.op = "rewind" /\ last.status = RING_BUFFER_SUCCESS /\ last.length >= 1
    /\ ring.read_callback.callback = callback
    /\ ring.read_callback.threshold >= 1
    /\ ring.read_callback.threshold <= MaxThreshold
    /\ Readable >= ring.read_callback.threshold
    /\ Readable - last.length < ring.read_callback.threshold

\* The bytes the transfers have completed and not yet consumed.
Outstanding == Len(written) - Len(consumed)

\* C31: whenever a thread calls ring_buffer_available / get_available while
\* another thread is executing write or read on the same store, the readable
\* and writable counts it obtains are those of the store before or after that
\* whole transfer, never those of a transfer applied in part.
C31_WholeTransfers ==
    [][(last'.op = "available" /\ last' # last)
         => /\ last'.data[1] = Outstanding
            /\ last'.data[2] = ring.capacity - Outstanding]_vars

\* A thread obtained the counts after the traced caller completed a transfer
\* that took two passes through the copy loop.
C31_Witness ==
    /\ last.op = "available"
    /\ pc = "idle"
    /\ \E i \in 1 .. Len(written) : written[i] = 3
    /\ ring.write % ring.capacity = 1
    /\ ring.capacity = 3
    /\ last.data[1] = 2

\* C32: in the C99 rewind-capable store, the readable byte count
\* write_pos - read_pos never exceeds the capacity, after every sequence of
\* successful writes, reads and rewinds, repeated rewinds included.
C32_ReadableWithinCapacity ==
    variant = "C99" => Readable <= ring.capacity

\* C33: in the C99 rewind-capable store, each byte a successful read returns
\* for the logical position p is the byte the successful write stored at p:
\* neither the bytes a rewind exposed again nor the bytes still unread are
\* replaced by data written later.
C33_ReadReturnsWritten ==
    [][(/\ variant = "C99"
        /\ last'.op = "read" /\ last'.status = RING_BUFFER_SUCCESS
        /\ last'.length > 0
        /\ ring'.read = ring.read + last'.length)
         => \A i \in 1 .. last'.length :
              /\ ring.read + i <= Len(written)
              /\ last'.data[i] = written[ring.read + i]]_vars

\* C34: in every reachable state of the C99 rewind-capable store,
\* ring_buffer_rewind(n) succeeds if and only if n is at most the rewindable
\* count min(read, backlog - rewind) that ring_buffer_available reports in
\* that state; a larger rewind fails with RING_BUFFER_UNDERFLOW.
C34_RewindWithinReported ==
    [][(variant = "C99" /\ last'.op = "rewind" /\ (last' # last \/ ring' # ring))
         => /\ last'.status \in {RING_BUFFER_SUCCESS, RING_BUFFER_UNDERFLOW}
            /\ (last'.status = RING_BUFFER_SUCCESS) <=>
                 (last'.length <= ring_buffer_available(ring).rewind)]_vars

\* The traced caller is between two passes of a copy loop.
Copying == pc \in {"ring_buffer_write_memcpy", "write_memcpy", "read_memcpy"}

\* C35: with several threads writing and several reading one store (no
\* rewind), each successful write is atomic in the byte stream: its bytes
\* occupy consecutive logical positions with no byte of another write in
\* between; each successful read receives consecutive positions, and no
\* position is delivered to two reads.  Stated on the store: the bytes
\* delivered so far are the first bytes accepted, in order, and outside a copy
\* loop the cursors are the counts of bytes delivered and accepted and the
\* cells between them hold the accepted bytes not delivered yet, in order.
C35_AtomicInStream ==
    /\ IsPrefix(consumed, written)
    /\ ~Copying =>
         /\ ring.read = Len(consumed) /\ ring.write = Len(written)
         /\ ReadableBytes(ring) = SubSeq(written, Len(consumed) + 1, Len(written))

\* Another thread read, in one call, the last byte of one write and the first
\* byte of the next, after the traced caller's write of two bytes succeeded in
\* two passes through the copy loop.
C35_Witness ==
    /\ pc = "ring_buffer_write_return"
    /\ frame.data = <<2, 3>> /\ frame.status = RING_BUFFER_SUCCESS
    /\ written = <<0, 1, 2, 3>>
    /\ ring.capacity = 3
    /\ last.op = "read" /\ last.data = <<1, 2>>
    /\ consumed = <<0, 1, 2>>

\* C36: in the C99 rewind-capable store, ring_buffer_write and
\* ring_buffer_read never call through a NULL callback pointer, whatever the
\* interleaving with ring_buffer_set_read_callback(ring, NULL, _) /
\* ring_buffer_set_write_callback(ring, NULL, _) on another thread.
C36_NeverCallsNull ==
    /\ pc # "fault"
    /\ pc \in {"callback", "callback_available"} => frame.invoked # NULL

\* C37: in the C99 rewind-capable store with a concurrent reader thread,
\* whenever the read callback triggered by a write starts executing, the
\* readable count is still at least the threshold the callback was registered
\* with: the condition that triggered the callback holds when the callback
\* observes the store.
C37_ConditionStillHolds ==
    /\ pc = "callback" => Readable >= frame.tested.threshold
    /\ frame.seen # <<>> => frame.seen[1] >= frame.tested.threshold

\* C38: a write or a read of length 0 with a non-null data pointer always
\* succeeds, also when the store is full (write) or empty (read); it leaves
\* the cursors, the rewind credit and the cells unchanged; and it still
\* invokes the registered read (write) callback when the current readable
\* (writable) count is at least its threshold.
C38_ZeroLength ==
    [][(/\ last'.op \in {"write", "read"}
        /\ last'.length = 0 /\ last'.address # NULL) =>
         /\ last'.status = RING_BUFFER_SUCCESS
         /\ last'.data = <<>>
         /\ UNCHANGED <<ring, written, consumed>>
         /\ (/\ last'.op = "write"
             /\ ring.read_callback.callback # NULL
             /\ Counts(ring)[1] >= ring.read_callback.threshold)
              => last'.notified = 1
         /\ (/\ last'.op = "read"
             /\ ring.write_callback.callback # NULL
             /\ Counts(ring)[2] >= ring.write_callback.threshold)
              => last'.notified = 1]_vars

\* A read of no bytes from an empty store that had been used invoked the write
\* callback, registered with a threshold the writable count just reached.
C38_Witness ==
    /\ last.op = "read" /\ last.length = 0 /\ last.address # NULL
    /\ last.status = RING_BUFFER_SUCCESS /\ last.notified = 1
    /\ Readable = 0 /\ ring.read > 0
    /\ ring.write_callback.callback # NULL
    /\ Counts(ring)[2] = ring.write_callback.threshold

\* C40: a write that fails with Overflow never invokes the read callback and
\* a read that fails with Underflow never invokes the write callback, even
\* when the current readable (writable) count is already at least the
\* registered threshold.
C40_FailureSilent ==
    [][(/\ last'.op \in {"write", "read"}
        /\ last'.status \in {RING_BUFFER_OVERFLOW, RING_BUFFER_UNDERFLOW}) =>
         /\ last'.notified = 0
         /\ last'.op = "write" <=> last'.status = RING_BUFFER_OVERFLOW]_vars

\* A write was refused with Overflow while the read callback was registered
\* and the readable count was at or above its threshold.
C40_Witness ==
    /\ last.op = "write" /\ last.status = RING_BUFFER_OVERFLOW
    /\ last.notified = 0
    /\ ring.read_callback.callback # NULL
    /\ Readable >= ring.read_callback.threshold

\* C39: with cursors that are w-bit unsigned counters and a capacity that
\* does not divide 2^w, the FIFO round trip still holds after the write or the
\* read cursor wraps past 2^w: the bytes read after the wrap are exactly the
\* bytes written, in order, and no unread byte is overwritten.
C39_FifoAcrossWrap ==
    (Word % ring.capacity # 0 /\ ring.backlog = 0) =>
        /\ IsPrefix(consumed, written)
        /\ ReadableBytes(ring) = SubSeq(written, Len(consumed) + 1, Len(written))

====
